---------------------------- MODULE Spec2Model ----------------------------
(***************************************************************************)
(* claudewatch: the marker scanner, the marker remover, the ignore matcher *)
(* and the loader of .claudewatchignore of util.go.                        *)
(*                                                                         *)
(* A text is a sequence of characters (one-character strings); a line is   *)
(* a text without "\n".  The classifier predicates work on characters, the *)
(* way the regular expressions of the source do; findActiveAIMarkers is    *)
(* the line loop of the source, one ScanLine step per line.  Each          *)
(* operation has its own specification: Spec and SpecCase (scanner),       *)
(* SpecRemove, SpecIgnore and SpecLoad.                                    *)
(***************************************************************************)
EXTENDS Naturals, Sequences, FiniteSets, TLC

(***************************************************************************)
(* Bounds of the inputs.                                                   *)
(***************************************************************************)
MaxLines == 4

MaxCaseLines == 2

(***************************************************************************)
(* Characters.                                                             *)
(***************************************************************************)
NL == "\n"

\* \s of the regular expressions (RE2: tab, newline, form feed, return, space)
IsSpace(c) == c \in {" ", "\t", "\n", "\f", "\r"}

\* the simple case folding (?i) applies to the ASCII letters
LowerOf ==
    ("A" :> "a") @@ ("B" :> "b") @@ ("C" :> "c") @@ ("D" :> "d") @@
    ("E" :> "e") @@ ("F" :> "f") @@ ("G" :> "g") @@ ("H" :> "h") @@
    ("I" :> "i") @@ ("J" :> "j") @@ ("K" :> "k") @@ ("L" :> "l") @@
    ("M" :> "m") @@ ("N" :> "n") @@ ("O" :> "o") @@ ("P" :> "p") @@
    ("Q" :> "q") @@ ("R" :> "r") @@ ("S" :> "s") @@ ("T" :> "t") @@
    ("U" :> "u") @@ ("V" :> "v") @@ ("W" :> "w") @@ ("X" :> "x") @@
    ("Y" :> "y") @@ ("Z" :> "z")

FoldChar(c) == IF c \in DOMAIN LowerOf THEN LowerOf[c] ELSE c

\* the literal pat (given in lower case) occurs in s at position k, case folded
MatchFoldAt(s, k, pat) ==
    /\ k + Len(pat) - 1 <= Len(s)
    /\ \A j \in 1..Len(pat) : FoldChar(s[k + j - 1]) = pat[j]

\* the literal pat occurs in s at position k, case kept
MatchExactAt(s, k, pat) ==
    /\ k + Len(pat) - 1 <= Len(s)
    /\ \A j \in 1..Len(pat) : s[k + j - 1] = pat[j]

(***************************************************************************)
(* Marker vocabulary.                                                      *)
(***************************************************************************)
supportedAIMarkers == << <<"a", "i", "!">>, <<"!", "a", "i">>, <<"a", "i", "?">> >>

ignoreDirective == <<"a", "i", ":", "i", "g", "n", "o", "r", "e">>

commentTokens == { <<"/", "/">>, <<"#">>, <<"/", "*">>, <<"*">> }

(***************************************************************************)
(* Line classifier.                                                        *)
(***************************************************************************)
\* variant: the (?i) flag left out
hasAIMarker_CaseSensitive(line) ==
    \E m \in 1..Len(supportedAIMarkers) :
        \E k \in 1..Len(line) : MatchExactAt(line, k, supportedAIMarkers[m])

\* markerPattern.MatchString: (?i)(?:ai!|!ai|ai\?), searched anywhere
hasAIMarker(line) ==
    \E m \in 1..Len(supportedAIMarkers) :
        \E k \in 1..Len(line) : MatchFoldAt(line, k, supportedAIMarkers[m])

\* ignoreRegex.MatchString: (?i)ai:ignore, searched anywhere
hasIgnoreDirective(line) ==
    \E k \in 1..Len(line) : MatchFoldAt(line, k, ignoreDirective)

\* one alternative \s*tok of commentStart matches from position k: the white
\* space is skipped (no token begins with white space), then a token follows
RECURSIVE CommentStartAt(_, _)
CommentStartAt(line, k) ==
    IF k > Len(line) THEN FALSE
    ELSE IF IsSpace(line[k]) THEN CommentStartAt(line, k + 1)
    ELSE \E tok \in commentTokens : MatchExactAt(line, k, tok)

\* commentStart.MatchString: (?:\s*\/\/|\s*#|\s*\/\*|\s*\*) carries no ^,
\* so the search tries every position of the line
isComment(line) ==
    \E k \in 1..Len(line) : CommentStartAt(line, k)

(***************************************************************************)
(* strings.Split(content, "\n") and strings.Join(lines, "\n").             *)
(***************************************************************************)
RECURSIVE SplitAcc(_, _, _, _)
SplitAcc(s, k, cur, acc) ==
    IF k > Len(s) THEN Append(acc, cur)
    ELSE IF s[k] = NL THEN SplitAcc(s, k + 1, <<>>, Append(acc, cur))
    ELSE SplitAcc(s, k + 1, Append(cur, s[k]), acc)

Split(s) == SplitAcc(s, 1, <<>>, <<>>)

RECURSIVE Join(_)
Join(ls) ==
    IF Len(ls) = 0 THEN <<>>
    ELSE IF Len(ls) = 1 THEN ls[1]
    ELSE ls[1] \o <<NL>> \o Join(Tail(ls))

(***************************************************************************)
(* Inputs of the scanner: texts of up to MaxLines lines, each one of       *)
(* InputLines (the line shapes of the tests of ai_markers_test.go).        *)
(***************************************************************************)
cSlashes == <<"/", "/">>
cHash == <<"#">>
cOpen == <<"/", "*">>
cStar == <<"*">>
cSp == <<" ">>
cIgnore == <<"a", "i", ":", "i", "g", "n", "o", "r", "e">>
cIgnoreMixed == <<"a", "I", ":", "i", "G", "n", "O", "r", "E">>
cBang == <<"a", "i", "!">>
cBangLead == <<"!", "a", "i">>
cBangLeadUpper == <<"!", "A", "I">>
cQuestUpper == <<"A", "I", "?">>
cQuestMixed == <<"A", "i", "?">>

InputLines ==
    { cSlashes \o cSp \o cIgnore,                           \* "// ai:ignore"
      cHash \o cSp \o cIgnoreMixed,                         \* "# aI:iGnOrE"
      cSlashes \o cSp \o <<"f", "i", "x">> \o cSp \o cBang, \* "// fix ai!"
      cSp \o cOpen \o cSp \o cQuestUpper \o cSp \o <<"*", "/">>, \* " /* AI? */"
      cStar \o cSp \o cBangLead,                            \* "* !ai"
      cSlashes \o cSp \o cIgnore \o cSp \o cBang,           \* "// ai:ignore ai!"
      cSlashes \o cSp \o <<"x">>,                           \* "// x"
      <<>>,                                                 \* ""
      cBang \o cSp \o <<"x">>,                              \* "ai! x"
      cIgnore }                                             \* "ai:ignore"

InputTexts ==
    { Join(ls) : ls \in UNION { [1..n -> InputLines] : n \in 1..MaxLines } }

(***************************************************************************)
(* Inputs of the classifier: texts of up to MaxCaseLines lines, each a     *)
(* lead (nothing, a comment token, or code before a comment token)         *)
(* followed by a word (a marker or the directive, in mixed case).          *)
(***************************************************************************)
CaseLeads ==
    { <<>>,                                                 \* ""
      cSlashes \o cSp,                                      \* "// "
      cSp \o cSp \o cHash \o cSp,                           \* "  # "
      cOpen \o cSp,                                         \* "/* "
      cStar \o cSp,                                         \* "* "
      <<"x">> \o cSp \o cSlashes \o cSp,                    \* "x // "
      <<"a">> \o cSp \o cStar \o cSp }                      \* "a * "

CaseWords ==
    { cBang,                                                \* "ai!"
      cBangLeadUpper,                                       \* "!AI"
      cQuestMixed,                                          \* "Ai?"
      cIgnoreMixed,                                         \* "aI:iGnOrE"
      cIgnoreMixed \o cSp \o cBang }                        \* "aI:iGnOrE ai!"

CaseLines == { lead \o word : lead \in CaseLeads, word \in CaseWords }

CaseTexts ==
    { Join(ls) : ls \in UNION { [1..n -> CaseLines] : n \in 1..MaxCaseLines } }

\* a text in lower case and in upper case (ASCII letters)
ToLowerText(s) == [k \in 1..Len(s) |-> FoldChar(s[k])]

ToUpperText(s) ==
    [k \in 1..Len(s) |->
        IF \E u \in DOMAIN LowerOf : LowerOf[u] = s[k]
        THEN CHOOSE u \in DOMAIN LowerOf : LowerOf[u] = s[k]
        ELSE s[k]]

KnownLines ==
    LET given == InputLines \cup CaseLines
    IN  given \cup { ToLowerText(l) : l \in given }
              \cup { ToUpperText(l) : l \in given }

(***************************************************************************)
(* The three classifier predicates of one line.  The patterns are compiled *)
(* once in the source; here the answers for the known lines are tabulated  *)
(* once, and any other line is classified on the spot.                     *)
(***************************************************************************)
Classify(line) ==
    [comment |-> isComment(line),
     ignore  |-> hasIgnoreDirective(line),
     marker  |-> hasAIMarker(line)]

ClassOfKnown == [l \in KnownLines |-> Classify(l)]

ClassOf(line) == IF line \in KnownLines THEN ClassOfKnown[line] ELSE Classify(line)

\* isComment(line) && hasIgnoreDirective(line) && hasAIMarker(line)
hasBothMarkerAndIgnore(line) ==
    LET c == ClassOf(line) IN c.comment /\ c.ignore /\ c.marker

(***************************************************************************)
(* The body of the line loop of findActiveAIMarkers, branch by branch.     *)
(* Each branch gives the values of ignoreNextAI and markers after it.      *)
(***************************************************************************)
AIMarkerLocation(lineNumber, line) == [LineNumber |-> lineNumber, LineText |-> line]

\* variant: the both-on-same-line branch clears the pending ignore
OnBoth_Clears(ignore, ms) == [ignoreNextAI |-> FALSE, markers |-> ms]

\* if hasBothMarkerAndIgnore(line) { continue }
OnBoth(ignore, ms) == [ignoreNextAI |-> ignore, markers |-> ms]

\* variant: the directive-only branch does not set the flag
OnDirective_NotSet(ignore, ms) == [ignoreNextAI |-> ignore, markers |-> ms]

\* variant: a second directive takes the first one back
OnDirective_Toggles(ignore, ms) == [ignoreNextAI |-> ~ignore, markers |-> ms]

\* ignoreNextAI = true; continue
OnDirective(ignore, ms) == [ignoreNextAI |-> TRUE, markers |-> ms]

\* variant: a pending ignore is not consumed by the line it suppresses
OnMarker_NotConsumed(ignore, ms, line, lineNumber) ==
    IF ignore
    THEN [ignoreNextAI |-> TRUE, markers |-> ms]
    ELSE [ignoreNextAI |-> ignore,
          markers |-> Append(ms, AIMarkerLocation(lineNumber, line))]

\* variant: the loop index is stored, not the 1-based line number
OnMarker_ZeroBased(ignore, ms, line, lineNumber) ==
    IF ignore
    THEN [ignoreNextAI |-> FALSE, markers |-> ms]
    ELSE [ignoreNextAI |-> ignore,
          markers |-> Append(ms, AIMarkerLocation(lineNumber - 1, line))]

\* variant: an active line is appended twice
OnMarker_AppendsTwice(ignore, ms, line, lineNumber) ==
    IF ignore
    THEN [ignoreNextAI |-> FALSE, markers |-> ms]
    ELSE [ignoreNextAI |-> ignore,
          markers |-> ms \o <<AIMarkerLocation(lineNumber, line),
                              AIMarkerLocation(lineNumber, line)>>]

\* the marker branch: a pending ignore is consumed, else the line is appended
OnMarker(ignore, ms, line, lineNumber) ==
    IF ignore
    THEN [ignoreNextAI |-> FALSE, markers |-> ms]
    ELSE [ignoreNextAI |-> ignore,
          markers |-> Append(ms, AIMarkerLocation(lineNumber, line))]

\* variant: the else branch does not reset the flag
OnOther_NoReset(ignore, ms, line) == [ignoreNextAI |-> ignore, markers |-> ms]

\* variant: only a line that is no comment resets the flag
OnOther_ResetOffComment(ignore, ms, line) ==
    [ignoreNextAI |-> IF isComment(line) THEN ignore ELSE FALSE, markers |-> ms]

\* the else branch: ignoreNextAI = false
OnOther(ignore, ms, line) == [ignoreNextAI |-> FALSE, markers |-> ms]

\* variant: the marker branch takes every comment
IsMarkerBranch_AnyComment(c) == c.comment

\* variant: the marker branch does not ask for a comment
IsMarkerBranch_NoCommentCheck(c) == c.marker

\* the condition of the marker branch: isComment(line) && hasAIMarker(line)
IsMarkerBranch(c) == c.comment /\ c.marker

\* variant: the directive branch does not ask for a comment
LoopBody_DirectiveAnywhere(ignore, ms, line, lineNumber) ==
    LET c == ClassOf(line)
    IN  IF hasBothMarkerAndIgnore(line)
        THEN OnBoth(ignore, ms)
        ELSE IF c.ignore /\ ~c.marker
        THEN OnDirective(ignore, ms)
        ELSE IF IsMarkerBranch(c)
        THEN OnMarker(ignore, ms, line, lineNumber)
        ELSE OnOther(ignore, ms, line)

\* variant: the marker branch is tried before the both-on-same-line branch
LoopBody_MarkerBeforeBoth(ignore, ms, line, lineNumber) ==
    LET c == ClassOf(line)
    IN  IF IsMarkerBranch(c)
        THEN OnMarker(ignore, ms, line, lineNumber)
        ELSE IF hasBothMarkerAndIgnore(line)
        THEN OnBoth(ignore, ms)
        ELSE IF c.comment /\ c.ignore /\ ~c.marker
        THEN OnDirective(ignore, ms)
        ELSE OnOther(ignore, ms, line)

\* the body of for i, line := range lines
LoopBody(ignore, ms, line, lineNumber) ==
    LET c == ClassOf(line)
    IN  IF hasBothMarkerAndIgnore(line)
        THEN OnBoth(ignore, ms)
        ELSE IF c.comment /\ c.ignore /\ ~c.marker
        THEN OnDirective(ignore, ms)
        ELSE IF IsMarkerBranch(c)
        THEN OnMarker(ignore, ms, line, lineNumber)
        ELSE OnOther(ignore, ms, line)

\* findActiveAIMarkers as a function of the content: the loop run to its end
RECURSIVE ScanFrom(_, _, _, _)
ScanFrom(ls, idx, ignore, ms) ==
    IF idx >= Len(ls) THEN ms
    ELSE LET r == LoopBody(ignore, ms, ls[idx + 1], idx + 1)
         IN  ScanFrom(ls, idx + 1, r.ignoreNextAI, r.markers)

findActiveAIMarkers(text) == ScanFrom(Split(text), 0, FALSE, <<>>)

hasActiveAIMarkers(text) == Len(findActiveAIMarkers(text)) > 0

(***************************************************************************)
(* The scanner as a state machine.                                         *)
(***************************************************************************)
VARIABLES
    content,       \* the argument of findActiveAIMarkers
    lines,         \* strings.Split(content, "\n")
    i,             \* the loop index: lines[1..i] are scanned
    ignoreNextAI,  \* the pending suppression
    markers,       \* the result so far
    pc,            \* "call", "loop", "done"
    ignoreAt       \* history: ignoreAt[n] is ignoreNextAI on entry to line n

scannerVars == <<content, lines, i, ignoreNextAI, markers, pc, ignoreAt>>

(***************************************************************************)
(* The state of the other operations of util.go: the marker remover, the   *)
(* ignore matcher and the loader of .claudewatchignore.  Each operation    *)
(* has its own specification; in the specification of one operation the    *)
(* others stay idle.                                                       *)
(***************************************************************************)
\* a Go slice is nil or holds items; a nil slice has length 0
NilSlice == [nil |-> TRUE, items |-> <<>>]

SliceOf(s) == [nil |-> FALSE, items |-> s]

VARIABLES
    rmContent,       \* removeAIMarkersFromContent: the argument content
    rmMarkers,       \* the argument markers
    rmLines,         \* strings.Split(content, "\n"), edited in place
    rmI,             \* the loop index: rmMarkers[1..rmI] are processed
    updatedMarkers,  \* make([]AIMarkerLocation, len(markers))
    rmPc,            \* "idle", "call", "loop", "done"
    rmRet            \* the returned (updatedContent, updatedMarkers, err)

removerVars == <<rmContent, rmMarkers, rmLines, rmI, updatedMarkers, rmPc, rmRet>>

VARIABLES
    path,            \* ShouldIgnorePathWithConfig: the argument path
    config,          \* the Config: IgnorePattern and IgnorePatterns
    igPc,            \* "idle", "call", "done"
    igRet,           \* the returned (bool, string)
    ignoreFile,      \* LoadIgnorePatterns: .claudewatchignore on the disk
    ldI,             \* the lines the bufio.Scanner has delivered
    patterns,        \* var patterns IgnorePatterns
    ldPc,            \* "idle", "stat", "open", "scan", "returned", "started"
    ldRet,           \* the returned (IgnorePatterns, error)
    warned           \* main wrote the warning to stderr

ignoreVars ==
    <<path, config, igPc, igRet, ignoreFile, ldI, patterns, ldPc, ldRet, warned>>

VARIABLES
    args,               \* main: os.Args[1:]
    argI,               \* the loop index i of the argument loop
    claudeArgs,         \* var claudeArgs []string
    watchDirSpecified,  \* a directory argument was taken
    mainPc,             \* "idle", "help", "args", "load", "watcher", "watch",
                        \* "start", "raw", "running", "exit"
    exitCode,           \* the argument of os.Exit, NoExit before it
    stderr,             \* the messages main has written to os.Stderr
    stages              \* history: the stages of the start that are done

mainVars ==
    <<args, argI, claudeArgs, watchDirSpecified, mainPc, exitCode, stderr, stages>>

VARIABLES
    hidPath,            \* IsHiddenOrSpecialFile: the argument filePath
    hidPc,              \* "idle", "call", "done"
    hidRet              \* the returned bool

hiddenVars == <<hidPath, hidPc, hidRet>>

VARIABLES
    files,              \* the files of the watched tree, by path
    events,             \* watcher.Events: the events not yet received
    event,              \* the event the monitoring goroutine is handling
    processedFiles,     \* processedFiles: path -> time of the last acceptance
    now,                \* the clock, in milliseconds
    evPc,               \* the monitoring goroutine: "idle", "select", "read",
                        \* "removeRead", "removeWrite", "send", "sending"
    markersFound,       \* markers := findActiveAIMarkers(string(content))
    updatedContent,     \* removeAIMarkersFromFile: the content to write
    updatedFound,       \* removeAIMarkersFromFile: the updatedMarkers to return
    fileRet,            \* (updatedMarkers, err) of removeAIMarkersFromFile
    promptChan,         \* promptChan: the prompt handed over, if any
    effects,            \* history: what the handling of the event has done
    edits               \* the number of changes other writers have made

watchVars ==
    <<files, events, event, processedFiles, now, evPc, markersFound,
      updatedContent, updatedFound, fileRet, promptChan, effects, edits>>

\* the operations that came after the scanner, the remover and the ignore rules
\* several invocations of findActiveAIMarkers at once
VARIABLES
    calls               \* the locals of each goroutine's invocation

callVars == <<calls>>

\* the assistant process, the pty and the goroutines main waits for
VARIABLES
    claude,             \* the assistant process: "none", "running", "exited"
    ptyOk,              \* writes to and reads from ptyMaster succeed
    pty,                \* history: what has been written to ptyMaster
    chanClosed,         \* close(promptChan) has been called
    fwdPc,              \* the prompt goroutine: "idle", "range", "write", "cr", "done"
    fwdPrompt,          \* prompt of for prompt := range promptChan
    copyPc,             \* the goroutine of io.Copy(os.Stdout, ptyMaster)
    wg,                 \* the counter of the WaitGroup
    queued,             \* history: the prompts in the order they were sent
    keys,               \* the number of bytes copied from os.Stdin
    watched             \* watcher: the directories added with watcher.Add

sessionVars ==
    <<claude, ptyOk, pty, chanClosed, fwdPc, fwdPrompt, copyPc, wg, queued, keys,
      watched>>

restVars == <<mainVars, hiddenVars, watchVars, callVars, sessionVars>>

vars == <<scannerVars, removerVars, ignoreVars, restVars>>

ScannerIdle ==
    /\ content = <<>>
    /\ lines = <<>>
    /\ i = 0
    /\ ignoreNextAI = FALSE
    /\ markers = <<>>
    /\ pc = "idle"
    /\ ignoreAt = <<>>

NoRemoveResult == [updatedContent |-> <<>>, updatedMarkers |-> NilSlice, err |-> FALSE]

RemoverIdle ==
    /\ rmContent = <<>>
    /\ rmMarkers = <<>>
    /\ rmLines = <<>>
    /\ rmI = 0
    /\ updatedMarkers = <<>>
    /\ rmPc = "idle"
    /\ rmRet = NoRemoveResult

\* the default prompt template, cut to its first action
DefaultTemplate == <<"{", "{", ".", "F", "i", "l", "e", "}", "}">>

\* config := Config{...} of main: the root ".", no --ignore pattern, no
\* patterns of the rule file, no debug output
ZeroConfig ==
    [ClaudeArgs     |-> <<>>,
     RootDirectory  |-> <<".">>,
     PromptTemplate |-> DefaultTemplate,
     IgnorePattern  |-> <<>>,
     IgnorePatterns |-> NilSlice,
     Debug          |-> FALSE]

NoIgnoreResult == [ignore |-> FALSE, reason |-> ""]

NoLoadResult == [patterns |-> NilSlice, err |-> FALSE]

NoFile == [stat |-> "absent", open |-> "ok", read |-> "ok", content |-> <<>>]

IgnoreIdle ==
    /\ path = <<>>
    /\ config = ZeroConfig
    /\ igPc = "idle"
    /\ igRet = NoIgnoreResult
    /\ ignoreFile = NoFile
    /\ ldI = 0
    /\ patterns = NilSlice
    /\ ldPc = "idle"
    /\ ldRet = NoLoadResult
    /\ warned = FALSE

NoExit == "none"

MainIdle ==
    /\ args = <<>>
    /\ argI = 0
    /\ claudeArgs = <<>>
    /\ watchDirSpecified = FALSE
    /\ mainPc = "idle"
    /\ exitCode = NoExit
    /\ stderr = <<>>
    /\ stages = <<>>

HiddenIdle ==
    /\ hidPath = <<>>
    /\ hidPc = "idle"
    /\ hidRet = FALSE

\* By and Wrote are history: who made the change, and what the program wrote
NoEvent == [Name |-> <<>>, Op |-> "none", By |-> "none", Wrote |-> <<>>]

\* removeAIMarkersFromFile has not returned
NoFileResult == [updatedMarkers |-> NilSlice, err |-> FALSE]

WatchIdle ==
    /\ files = <<>>
    /\ events = <<>>
    /\ event = NoEvent
    /\ processedFiles = <<>>
    /\ now = 0
    /\ evPc = "idle"
    /\ markersFound = <<>>
    /\ updatedContent = <<>>
    /\ updatedFound = <<>>
    /\ fileRet = NoFileResult
    /\ promptChan = <<>>
    /\ effects = <<>>
    /\ edits = 0

CallsIdle == calls = <<>>

SessionIdle ==
    /\ claude = "none"
    /\ ptyOk = FALSE
    /\ pty = <<>>
    /\ chanClosed = FALSE
    /\ fwdPc = "idle"
    /\ fwdPrompt = <<>>
    /\ copyPc = "idle"
    /\ wg = 0
    /\ queued = <<>>
    /\ keys = 0
    /\ watched = {}

RestIdle == MainIdle /\ HiddenIdle /\ WatchIdle /\ CallsIdle /\ SessionIdle

Init ==
    /\ content \in InputTexts
    /\ lines = <<>>
    /\ i = 0
    /\ ignoreNextAI = FALSE
    /\ markers = <<>>
    /\ pc = "call"
    /\ ignoreAt = <<>>
    /\ RemoverIdle
    /\ IgnoreIdle
    /\ RestIdle

\* lines := strings.Split(content, "\n"); var markers; ignoreNextAI := false
FindStart ==
    /\ pc = "call"
    /\ lines' = Split(content)
    /\ markers' = <<>>
    /\ ignoreNextAI' = FALSE
    /\ i' = 0
    /\ pc' = "loop"
    /\ ignoreAt' = <<>>
    /\ UNCHANGED <<content, removerVars, ignoreVars, restVars>>

\* one iteration of for i, line := range lines
ScanLine ==
    /\ pc = "loop"
    /\ i < Len(lines)
    /\ LET r == LoopBody(ignoreNextAI, markers, lines[i + 1], i + 1)
       IN  /\ ignoreNextAI' = r.ignoreNextAI
           /\ markers' = r.markers
    /\ i' = i + 1
    /\ ignoreAt' = Append(ignoreAt, ignoreNextAI)
    /\ UNCHANGED <<content, lines, pc, removerVars, ignoreVars, restVars>>

\* return markers
FindReturn ==
    /\ pc = "loop"
    /\ i >= Len(lines)
    /\ pc' = "done"
    /\ UNCHANGED <<content, lines, i, ignoreNextAI, markers, ignoreAt,
                   removerVars, ignoreVars, restVars>>

Next == FindStart \/ ScanLine \/ FindReturn

Spec == Init /\ [][Next]_vars

\* the scan as a call that runs on: a step that can be taken is taken
MaxRunLines == 3

RunTexts ==
    { Join(ls) : ls \in UNION { [1..n -> InputLines] : n \in 1..MaxRunLines } }

InitRun ==
    /\ content \in RunTexts
    /\ lines = <<>>
    /\ i = 0
    /\ ignoreNextAI = FALSE
    /\ markers = <<>>
    /\ pc = "call"
    /\ ignoreAt = <<>>
    /\ RemoverIdle
    /\ IgnoreIdle
    /\ RestIdle

SpecRun == InitRun /\ [][Next]_vars /\ WF_vars(Next)

\* the same scanner, started on the classifier's inputs
InitCase ==
    /\ content \in CaseTexts
    /\ lines = <<>>
    /\ i = 0
    /\ ignoreNextAI = FALSE
    /\ markers = <<>>
    /\ pc = "call"
    /\ ignoreAt = <<>>
    /\ RemoverIdle
    /\ IgnoreIdle
    /\ RestIdle

SpecCase == InitCase /\ [][Next]_vars

(***************************************************************************)
(* Vocabulary of the properties.  They are stated of the returned result   *)
(* (pc = "done"); line n is lines[n].  A "comment line" is a line the      *)
(* classifier takes for a comment (isComment); C10 is about what isComment *)
(* accepts.                                                                *)
(***************************************************************************)
LineNos == 1..Len(lines)

Returned == pc = "done"

Scanned(n) == n \in 1..i

Emitted(n) == \E k \in 1..Len(markers) : markers[k].LineNumber = n

\* a comment with the directive and no marker
IsDirectiveOnly(n) ==
    LET c == ClassOf(lines[n]) IN c.comment /\ c.ignore /\ ~c.marker

\* a comment with a marker and no directive
IsMarkerLine(n) ==
    LET c == ClassOf(lines[n]) IN c.comment /\ c.marker /\ ~c.ignore

\* a comment with the directive and a marker
IsBothLine(n) ==
    LET c == ClassOf(lines[n]) IN c.comment /\ c.ignore /\ c.marker

\* none of the three
IsOtherLine(n) == ~IsDirectiveOnly(n) /\ ~IsMarkerLine(n) /\ ~IsBothLine(n)

\* ignoreNextAI once line n is scanned
IgnoreAfter(n) == IF n < i THEN ignoreAt[n + 1] ELSE ignoreNextAI

(***************************************************************************)
(* C1: a marker-bearing comment line (without the directive) that comes    *)
(* directly after a directive-only comment line is not emitted.            *)
(***************************************************************************)
C1_DirectiveSuppressesNextMarker ==
    Returned =>
        \A n \in LineNos :
            (n >= 2 /\ Scanned(n) /\ IsDirectiveOnly(n - 1) /\ IsMarkerLine(n))
                => ~Emitted(n)

C1_Witness ==
    /\ Returned
    /\ \E n \in LineNos : n >= 2 /\ IsDirectiveOnly(n - 1) /\ IsMarkerLine(n)
                          /\ ~Emitted(n)

(***************************************************************************)
(* C2: the suppression is consumed by the marker line it suppresses: after *)
(* a directive-only line followed by two marker-bearing comment lines, the *)
(* first is withheld and the second is emitted under its own line number   *)
(* and with its own text.                                                  *)
(***************************************************************************)
C2_SuppressionConsumed ==
    Returned =>
        \A n \in LineNos :
            (n >= 3 /\ Scanned(n) /\ IsDirectiveOnly(n - 2) /\ IsMarkerLine(n - 1)
                    /\ IsMarkerLine(n))
                => /\ ~Emitted(n - 1)
                   /\ \E k \in 1..Len(markers) :
                          markers[k] = AIMarkerLocation(n, lines[n])

C2_Witness ==
    /\ Returned
    /\ \E n \in LineNos : /\ n >= 3
                          /\ IsDirectiveOnly(n - 2)
                          /\ IsMarkerLine(n - 1)
                          /\ IsMarkerLine(n)
                          /\ Emitted(n)

(***************************************************************************)
(* C3: a comment line with both the directive and a marker is never        *)
(* emitted, scanning it leaves ignoreNextAI as it was on entry to the      *)
(* line, and a marker-bearing comment line directly after it is emitted    *)
(* iff ignoreNextAI was false on entry to the both-on-same-line line.      *)
(***************************************************************************)
C3_BothLineIsTransparent ==
    Returned =>
        \A n \in LineNos :
            (Scanned(n) /\ IsBothLine(n))
                => /\ ~Emitted(n)
                   /\ IgnoreAfter(n) = ignoreAt[n]
                   /\ (Scanned(n + 1) /\ IsMarkerLine(n + 1))
                         => (Emitted(n + 1) <=> ~ignoreAt[n])

C3_Witness ==
    /\ Returned
    /\ \E n \in LineNos : /\ n + 1 \in LineNos
                          /\ IsBothLine(n)
                          /\ ignoreAt[n]
                          /\ IsMarkerLine(n + 1)
                          /\ ~Emitted(n + 1)

(***************************************************************************)
(* C4, as stated: a marker-bearing comment line without the directive is   *)
(* withheld only if the line directly before it is a directive-only        *)
(* comment line (so no directive reaches a marker two or more lines on).   *)
(* Fails on "// ai:ignore", "// ai:ignore ai!", "// fix ai!": the          *)
(* both-on-same-line line passes the pending suppression on to line 3.     *)
(***************************************************************************)
C4_Original_OnlyTheVeryNextLine ==
    Returned =>
        \A n \in LineNos :
            (Scanned(n) /\ IsMarkerLine(n) /\ ~Emitted(n))
                => (n >= 2 /\ IsDirectiveOnly(n - 1))

(***************************************************************************)
(* C4, amended: a marker-bearing comment line without the directive is     *)
(* withheld only if the nearest line before it that is not a               *)
(* both-on-same-line comment is a directive-only comment line, i.e. a      *)
(* directive reaches past both-on-same-line comments and past nothing else.*)
(***************************************************************************)
C4_OnlyAcrossBothLines ==
    Returned =>
        \A n \in LineNos :
            (Scanned(n) /\ IsMarkerLine(n) /\ ~Emitted(n))
                => \E m \in 1..(n - 1) :
                       /\ IsDirectiveOnly(m)
                       /\ \A j \in (m + 1)..(n - 1) : IsBothLine(j)

C4_Witness ==
    /\ Returned
    /\ \E n \in LineNos : /\ n >= 3
                          /\ IsDirectiveOnly(n - 2)
                          /\ IsBothLine(n - 1)
                          /\ IsMarkerLine(n)
                          /\ ~Emitted(n)

(***************************************************************************)
(* C5: a line that is no directive-only, marker-bearing or                 *)
(* both-on-same-line comment cancels a pending suppression: when it stands *)
(* between a directive-only line and a marker-bearing comment line, the    *)
(* marker line is emitted.                                                 *)
(***************************************************************************)
C5_InterveningLineCancels ==
    Returned =>
        \A n \in LineNos :
            (n >= 3 /\ Scanned(n) /\ IsDirectiveOnly(n - 2) /\ IsOtherLine(n - 1)
                    /\ IsMarkerLine(n))
                => (~IgnoreAfter(n - 1) /\ Emitted(n))

C5_Witness ==
    /\ Returned
    /\ \E n \in LineNos : /\ n >= 3
                          /\ IsDirectiveOnly(n - 2)
                          /\ IsOtherLine(n - 1)
                          /\ IsMarkerLine(n)
                          /\ Emitted(n)

(***************************************************************************)
(* C6: the directive is idempotent: after k >= 1 consecutive               *)
(* directive-only lines the suppression is pending exactly as after one,   *)
(* the next marker-bearing comment line is withheld and a marker-bearing   *)
(* comment line directly after that one is emitted.                        *)
(***************************************************************************)
C6_DirectiveIdempotent ==
    Returned =>
        \A n \in LineNos : \A k \in 1..n :
            (Scanned(n) /\ \A j \in (n - k + 1)..n : IsDirectiveOnly(j))
                => /\ IgnoreAfter(n) = TRUE
                   /\ (Scanned(n + 1) /\ IsMarkerLine(n + 1))
                         => (~Emitted(n + 1) /\ IgnoreAfter(n + 1) = FALSE)
                   /\ (Scanned(n + 2) /\ IsMarkerLine(n + 1) /\ IsMarkerLine(n + 2))
                         => Emitted(n + 2)

C6_Witness ==
    /\ Returned
    /\ \E n \in LineNos : /\ n >= 2 /\ n + 2 \in LineNos
                          /\ IsDirectiveOnly(n - 1)
                          /\ IsDirectiveOnly(n)
                          /\ IsMarkerLine(n + 1)
                          /\ IsMarkerLine(n + 2)
                          /\ ~Emitted(n + 1)
                          /\ Emitted(n + 2)

(***************************************************************************)
(* C7: the occurrences are in strictly ascending order of line number,     *)
(* every line number is a 1-based index into the content split on "\n",    *)
(* and the text of each occurrence is that line, character for character.  *)
(***************************************************************************)
C7_AscendingAndVerbatim ==
    Returned =>
        LET split == Split(content)
        IN  \A k \in 1..Len(markers) :
                /\ markers[k].LineNumber \in 1..Len(split)
                /\ markers[k].LineText = split[markers[k].LineNumber]
                /\ k > 1 => markers[k - 1].LineNumber < markers[k].LineNumber

C7_Witness ==
    /\ Returned
    /\ Len(markers) >= 2
    /\ markers[2].LineNumber > markers[1].LineNumber + 1
    /\ markers[1].LineNumber > 1

(***************************************************************************)
(* C8: when no line of the content is both a comment and a carrier of a    *)
(* marker spelling, the scan returns the empty sequence.                   *)
(***************************************************************************)
C8_NoMarkerCommentNoOccurrence ==
    LET split == Split(content)
    IN  (Returned /\ \A n \in 1..Len(split) :
                           ~(ClassOf(split[n]).comment /\ ClassOf(split[n]).marker))
            => (markers = <<>> /\ ~hasActiveAIMarkers(content))

\* directives and marker text outside comments are there, and nothing is emitted
C8_Witness ==
    /\ Returned
    /\ \A n \in LineNos : ~(ClassOf(lines[n]).comment /\ ClassOf(lines[n]).marker)
    /\ \E n \in LineNos : IsDirectiveOnly(n)
    /\ \E n \in LineNos : ~ClassOf(lines[n]).comment /\ ClassOf(lines[n]).marker
    /\ markers = <<>>

(***************************************************************************)
(* C9: the scan is case-insensitive: the content in lower case and the     *)
(* content in upper case give the same line numbers as the content itself. *)
(***************************************************************************)
LineNumbersOf(ms) == [k \in 1..Len(ms) |-> ms[k].LineNumber]

C9_CaseInsensitive ==
    Returned =>
        /\ LineNumbersOf(findActiveAIMarkers(ToLowerText(content)))
               = LineNumbersOf(markers)
        /\ LineNumbersOf(findActiveAIMarkers(ToUpperText(content)))
               = LineNumbersOf(markers)

\* a marker written with upper-case letters is emitted
C9_Witness ==
    /\ Returned
    /\ \E k \in 1..Len(markers) :
           /\ ToLowerText(markers[k].LineText) # markers[k].LineText
           /\ ~hasAIMarker_CaseSensitive(markers[k].LineText)

(***************************************************************************)
(* C10, as stated: isComment(line) holds exactly when the line, after its  *)
(* leading white space, begins with "//", "/*", "*" or "#"; a line with    *)
(* other text before the token is no comment and its marker is not         *)
(* emitted.  Fails on "x // ai!" and on "a * ai!": commentStart is not     *)
(* anchored, so a token anywhere in the line makes it a comment.           *)
(***************************************************************************)
BeginsWithCommentToken(line) ==
    \E w \in 0..Len(line) :
        /\ \A j \in 1..w : IsSpace(line[j])
        /\ \E tok \in commentTokens : MatchExactAt(line, w + 1, tok)

C10_CommentOnlyAtLineStart ==
    Returned =>
        \A n \in LineNos :
            /\ isComment(lines[n]) <=> BeginsWithCommentToken(lines[n])
            /\ ~BeginsWithCommentToken(lines[n]) => ~Emitted(n)

(***************************************************************************)
(* The marker remover: removeAIMarkersFromContent.                         *)
(***************************************************************************)
MaxRemoveLines == 2

MaxOccurrences == 2

\* one pass of ReplaceAllString(line, ""): the matches of the literal pat are
\* found from left to right and do not overlap; the text between them is kept
RECURSIVE ReplaceAllFrom(_, _, _, _)
ReplaceAllFrom(s, k, pat, acc) ==
    IF k > Len(s) THEN acc
    ELSE IF MatchFoldAt(s, k, pat) THEN ReplaceAllFrom(s, k + Len(pat), pat, acc)
    ELSE ReplaceAllFrom(s, k + 1, pat, Append(acc, s[k]))

\* variant: only the first match is deleted
RECURSIVE ReplaceFirstFrom(_, _, _)
ReplaceFirstFrom(s, k, pat) ==
    IF k > Len(s) THEN s
    ELSE IF MatchFoldAt(s, k, pat)
    THEN SubSeq(s, 1, k - 1) \o SubSeq(s, k + Len(pat), Len(s))
    ELSE ReplaceFirstFrom(s, k + 1, pat)

ReplaceAllString_FirstOnly(s, pat) == ReplaceFirstFrom(s, 1, pat)

\* regexp.MustCompile("(?i)" + regexp.QuoteMeta(markerText)).ReplaceAllString(s, "")
ReplaceAllString(s, pat) == ReplaceAllFrom(s, 1, pat, <<>>)

\* for _, markerText := range supportedAIMarkers: one pass for each spelling,
\* each on the line the pass before has left
RECURSIVE StripFrom(_, _)
StripFrom(line, m) ==
    IF m > Len(supportedAIMarkers) THEN line
    ELSE StripFrom(ReplaceAllString(line, supportedAIMarkers[m]), m + 1)

updatedLine(line) == StripFrom(line, 1)

\* the negation of marker.LineNumber <= 0 || marker.LineNumber > len(lines)
ValidLineNumber(marker, ls) ==
    ~(marker.LineNumber <= 0 \/ marker.LineNumber > Len(ls))

\* variant: the updated line is stored one line further down
SetLine_NextLine(ls, lineNumber, new) ==
    IF lineNumber < Len(ls) THEN [ls EXCEPT ![lineNumber + 1] = new]
    ELSE [ls EXCEPT ![lineNumber] = new]

\* lines[lineIndex] = updatedLine, with lineIndex = marker.LineNumber - 1
SetLine(ls, lineNumber, new) == [ls EXCEPT ![lineNumber] = new]

\* variant: the failure hands back what the loop has done so far
ErrorReturn_Partial(ls, ums) ==
    [updatedContent |-> Join(ls), updatedMarkers |-> SliceOf(ums), err |-> TRUE]

\* return "", nil, fmt.Errorf("invalid line number ...")
ErrorReturn(ls, ums) ==
    [updatedContent |-> <<>>, updatedMarkers |-> NilSlice, err |-> TRUE]

\* return updatedContent, updatedMarkers, nil
OkReturn(ls, ums) ==
    [updatedContent |-> Join(ls), updatedMarkers |-> SliceOf(ums), err |-> FALSE]

(***************************************************************************)
(* Inputs of the remover: texts of up to MaxRemoveLines lines and lists of *)
(* up to MaxOccurrences occurrences, with line numbers from 0 to one past  *)
(* the last line; the list findActiveAIMarkers gives is always among them. *)
(***************************************************************************)
RemoveLines ==
    { cSlashes \o cSp \o <<"f", "i", "x">> \o cSp \o cBang, \* "// fix ai!"
      cHash \o cSp \o cQuestUpper \o cSp \o cBangLead \o cSp \o cQuestMixed,
                                                            \* "# AI? !ai Ai?"
      cSlashes \o cSp \o <<"a">> \o cBang \o <<"i", "!">>,  \* "// aai!i!"
      cSlashes \o cSp \o <<"!">> \o cBang,                  \* "// !ai!"
      <<"x">>,                                              \* "x"
      <<>> }                                                \* ""

RemoveTexts ==
    { Join(ls) : ls \in UNION { [1..n -> RemoveLines] : n \in 1..MaxRemoveLines } }

OccurrencesOf(text) ==
    LET ls == Split(text)
    IN  { AIMarkerLocation(n, IF n \in 1..Len(ls) THEN ls[n] ELSE <<>>) :
              n \in 0..(Len(ls) + 1) }

OccurrenceLists(text) ==
    UNION { [1..n -> OccurrencesOf(text)] : n \in 0..MaxOccurrences }
        \cup { findActiveAIMarkers(text) }

InitRemove ==
    /\ rmContent \in RemoveTexts
    /\ rmMarkers \in OccurrenceLists(rmContent)
    /\ rmLines = <<>>
    /\ rmI = 0
    /\ updatedMarkers = <<>>
    /\ rmPc = "call"
    /\ rmRet = NoRemoveResult
    /\ ScannerIdle
    /\ IgnoreIdle
    /\ RestIdle

\* lines := strings.Split(content, "\n"); updatedMarkers := make(..., len(markers))
RemoveStart ==
    /\ rmPc = "call"
    /\ rmLines' = Split(rmContent)
    /\ updatedMarkers' = [k \in 1..Len(rmMarkers) |-> AIMarkerLocation(0, <<>>)]
    /\ rmI' = 0
    /\ rmPc' = "loop"
    /\ UNCHANGED <<rmContent, rmMarkers, rmRet, scannerVars, ignoreVars, restVars>>

\* one iteration of for i, marker := range markers, the line number valid
RemoveMarker ==
    /\ rmPc = "loop"
    /\ rmI < Len(rmMarkers)
    /\ ValidLineNumber(rmMarkers[rmI + 1], rmLines)
    /\ LET lineNumber == rmMarkers[rmI + 1].LineNumber
           new == updatedLine(rmLines[lineNumber])
       IN  /\ rmLines' = SetLine(rmLines, lineNumber, new)
           /\ updatedMarkers' =
                  [updatedMarkers EXCEPT ![rmI + 1] = AIMarkerLocation(lineNumber, new)]
    /\ rmI' = rmI + 1
    /\ UNCHANGED <<rmContent, rmMarkers, rmPc, rmRet, scannerVars, ignoreVars, restVars>>

\* the iteration that meets an invalid line number returns the error
RemoveFail ==
    /\ rmPc = "loop"
    /\ rmI < Len(rmMarkers)
    /\ ~ValidLineNumber(rmMarkers[rmI + 1], rmLines)
    /\ rmRet' = ErrorReturn(rmLines, updatedMarkers)
    /\ rmPc' = "done"
    /\ UNCHANGED <<rmContent, rmMarkers, rmLines, rmI, updatedMarkers,
                   scannerVars, ignoreVars, restVars>>

\* updatedContent := strings.Join(lines, "\n"); return
RemoveReturn ==
    /\ rmPc = "loop"
    /\ rmI >= Len(rmMarkers)
    /\ rmRet' = OkReturn(rmLines, updatedMarkers)
    /\ rmPc' = "done"
    /\ UNCHANGED <<rmContent, rmMarkers, rmLines, rmI, updatedMarkers,
                   scannerVars, ignoreVars, restVars>>

NextRemove == RemoveStart \/ RemoveMarker \/ RemoveFail \/ RemoveReturn

SpecRemove == InitRemove /\ [][NextRemove]_vars

(***************************************************************************)
(* Vocabulary of the remover's properties.                                 *)
(***************************************************************************)
RemoveDone == rmPc = "done"

RemoveOk == rmPc = "done" /\ ~rmRet.err

OldLines == Split(rmContent)

NewLines == Split(rmRet.updatedContent)

Referenced(n) == \E k \in 1..Len(rmMarkers) : rmMarkers[k].LineNumber = n

FromScan == rmMarkers = findActiveAIMarkers(rmContent)

(***************************************************************************)
(* C11, as stated: with the occurrences of findActiveAIMarkers removed, no *)
(* line of an occurrence holds a marker spelling in the new text, and the  *)
(* scan of the new text gives no occurrence at any of these line numbers.  *)
(* Fails on "// aai!i!": the pass for "ai!" takes out the inner token and  *)
(* the text around it closes to "// ai!".                                  *)
(***************************************************************************)
C11_RemoverRoundTrip ==
    (RemoveOk /\ FromScan) =>
        LET rescan == findActiveAIMarkers(rmRet.updatedContent)
        IN  \A k \in 1..Len(rmMarkers) :
                /\ ~hasAIMarker(NewLines[rmMarkers[k].LineNumber])
                /\ \A j \in 1..Len(rescan) :
                       rescan[j].LineNumber # rmMarkers[k].LineNumber

(***************************************************************************)
(* C12: removeAIMarkersFromContent returns an error exactly when some      *)
(* occurrence has a line number below 1 or above the number of lines; the  *)
(* failure returns the empty text and the nil list, whatever the loop has  *)
(* done before, and no step alters the content it was given.               *)
(***************************************************************************)
SomeOutOfRange ==
    \E k \in 1..Len(rmMarkers) :
        rmMarkers[k].LineNumber < 1 \/ rmMarkers[k].LineNumber > Len(OldLines)

C12_OutOfRangeIsAtomic ==
    [][ /\ rmContent' = rmContent
        /\ rmPc' = "done" =>
               /\ rmRet'.err <=> SomeOutOfRange
               /\ rmRet'.err =>
                      /\ rmRet'.updatedContent = <<>>
                      /\ rmRet'.updatedMarkers = NilSlice ]_vars

\* the failure comes after an occurrence that was valid and has changed its line
C12_Witness ==
    /\ RemoveDone
    /\ rmRet.err
    /\ rmI >= 1
    /\ rmLines # OldLines
    /\ rmRet.updatedContent = <<>>
    /\ rmRet.updatedMarkers = NilSlice

(***************************************************************************)
(* C13, as stated: every line an occurrence refers to is replaced by the   *)
(* line without the occurrences of "ai!", "!ai" and "ai?" (any case, all   *)
(* of them), and every other character stays, in its order: the new line   *)
(* is the old line minus the token substrings.  Fails on "// !ai!": the    *)
(* pass for "ai!" takes the token that overlaps "!ai", and "// !" stays.   *)
(***************************************************************************)
\* position k of the line lies in an occurrence of the literal pat
InOccurrence(line, k, pat) ==
    \E j \in 1..k : k < j + Len(pat) /\ MatchFoldAt(line, j, pat)

\* position k of the line lies in an occurrence of a marker spelling
InToken(line, k) ==
    \E m \in 1..Len(supportedAIMarkers) : InOccurrence(line, k, supportedAIMarkers[m])

\* the line minus its token substrings
RECURSIVE MinusTokensFrom(_, _)
MinusTokensFrom(line, k) ==
    IF k > Len(line) THEN <<>>
    ELSE IF InToken(line, k) THEN MinusTokensFrom(line, k + 1)
    ELSE <<line[k]>> \o MinusTokensFrom(line, k + 1)

MinusTokens(line) == MinusTokensFrom(line, 1)

C13_Original_LineMinusTokens ==
    RemoveOk =>
        \A n \in 1..Len(OldLines) :
            Referenced(n) => NewLines[n] = MinusTokens(OldLines[n])

(***************************************************************************)
(* C13, amended: for each occurrence that refers to the line there is one  *)
(* round of three passes, for "ai!", "!ai" and "ai?" in this order; a pass *)
(* deletes every occurrence (any case) of its spelling in the line as the  *)
(* pass before has left it and keeps every other character in its order.   *)
(* Where the tokens of the old line neither overlap nor leave a token      *)
(* behind when they are taken out, the new line is the old line minus the  *)
(* token substrings.                                                       *)
(***************************************************************************)
\* the line minus every occurrence of one spelling (a spelling does not
\* overlap itself, so its occurrences are apart)
RECURSIVE DeleteEveryFrom(_, _, _)
DeleteEveryFrom(line, k, pat) ==
    IF k > Len(line) THEN <<>>
    ELSE IF InOccurrence(line, k, pat) THEN DeleteEveryFrom(line, k + 1, pat)
    ELSE <<line[k]>> \o DeleteEveryFrom(line, k + 1, pat)

DeleteEvery(line, pat) == DeleteEveryFrom(line, 1, pat)

OneRound(line) ==
    DeleteEvery(DeleteEvery(DeleteEvery(line, <<"a", "i", "!">>),
                            <<"!", "a", "i">>),
                <<"a", "i", "?">>)

RECURSIVE Rounds(_, _)
Rounds(line, c) == IF c = 0 THEN line ELSE Rounds(OneRound(line), c - 1)

RefCount(n) == Cardinality({ k \in 1..Len(rmMarkers) : rmMarkers[k].LineNumber = n })

\* no character lies in two tokens, and taking the tokens out leaves no token
TokensApart(line) ==
    /\ \A k \in 1..Len(line) :
           Cardinality({ <<m, j>> \in (1..Len(supportedAIMarkers)) \X (1..k) :
                            /\ k < j + Len(supportedAIMarkers[m])
                            /\ MatchFoldAt(line, j, supportedAIMarkers[m]) }) <= 1
    /\ ~hasAIMarker(MinusTokens(line))

C13_PassesInOrder ==
    RemoveOk =>
        \A n \in 1..Len(OldLines) :
            Referenced(n) =>
                /\ NewLines[n] = Rounds(OldLines[n], RefCount(n))
                /\ TokensApart(OldLines[n]) => NewLines[n] = MinusTokens(OldLines[n])

\* a line with three tokens apart is stripped of all of them, a line with
\* overlapping tokens keeps a part of one
C13_Witness ==
    /\ RemoveOk
    /\ \E n \in 1..Len(OldLines) :
           /\ Referenced(n)
           /\ TokensApart(OldLines[n])
           /\ Len(NewLines[n]) + 9 = Len(OldLines[n])
    /\ \E n \in 1..Len(OldLines) :
           /\ Referenced(n)
           /\ ~TokensApart(OldLines[n])
           /\ NewLines[n] # MinusTokens(OldLines[n])

(***************************************************************************)
(* C14: the returned text has as many lines as the content, and a line no  *)
(* occurrence refers to is the line of the content at the same index.      *)
(***************************************************************************)
C14_LineStructureKept ==
    RemoveOk =>
        /\ Len(NewLines) = Len(OldLines)
        /\ \A n \in 1..Len(OldLines) : ~Referenced(n) => NewLines[n] = OldLines[n]

\* a marker line is edited and another marker line, not referred to, is kept
C14_Witness ==
    /\ RemoveOk
    /\ Len(OldLines) = 2
    /\ \E n \in 1..2 : Referenced(n) /\ NewLines[n] # OldLines[n]
    /\ \E n \in 1..2 :
           ~Referenced(n) /\ hasAIMarker(OldLines[n]) /\ NewLines[n] = OldLines[n]

(***************************************************************************)
(* C15, as stated: on success there is one updated occurrence for each     *)
(* occurrence given, in the same order and with the same line number, and  *)
(* its LineText is the line at that number in the returned text.  Fails on *)
(* "// aai!i!" with two occurrences for line 1: the first one carries      *)
(* "// ai!", the returned line is "// ".                                   *)
(***************************************************************************)
C15_OneUpdatedOccurrenceEach ==
    RemoveOk =>
        LET ums == rmRet.updatedMarkers
        IN  /\ ~ums.nil
            /\ Len(ums.items) = Len(rmMarkers)
            /\ \A k \in 1..Len(rmMarkers) :
                   /\ ums.items[k].LineNumber = rmMarkers[k].LineNumber
                   /\ ums.items[k].LineText = NewLines[rmMarkers[k].LineNumber]

(***************************************************************************)
(* The ignore matcher.  A pattern is the text it was compiled from; the    *)
(* patterns of the tests are written with literal characters, \c, ".",     *)
(* "*" after a character, "^" and "$", and this is the syntax modelled.    *)
(***************************************************************************)
MaxPatterns == 2

Backslash == "\\"

\* the length of the atom at position pi of the pattern: \c or one character
AtomLen(pat, pi) == IF pat[pi] = Backslash THEN 2 ELSE 1

\* the atom at position pi matches the character c
AtomMatches(pat, pi, c) ==
    IF pat[pi] = Backslash THEN c = pat[pi + 1]
    ELSE IF pat[pi] = "." THEN c # NL
    ELSE c = pat[pi]

\* the pattern from position pi on matches s from position si on
RECURSIVE MatchHere(_, _, _, _)
MatchHere(pat, pi, s, si) ==
    IF pi > Len(pat) THEN TRUE
    ELSE IF pat[pi] = "$" THEN si > Len(s) /\ MatchHere(pat, pi + 1, s, si)
    ELSE IF pat[pi] = "^" THEN si = 1 /\ MatchHere(pat, pi + 1, s, si)
    ELSE LET next == pi + AtomLen(pat, pi)
         IN  IF next <= Len(pat) /\ pat[next] = "*"
             THEN \E j \in si..(Len(s) + 1) :
                      /\ \A t \in si..(j - 1) : AtomMatches(pat, pi, s[t])
                      /\ MatchHere(pat, next + 1, s, j)
             ELSE /\ si <= Len(s)
                  /\ AtomMatches(pat, pi, s[si])
                  /\ MatchHere(pat, next, s, si + 1)

\* (*regexp.Regexp).MatchString: the pattern is searched anywhere in s
MatchString(pat, s) == \E k \in 1..(Len(s) + 1) : MatchHere(pat, 1, s, k)

\* ShouldIgnoreFile: a nil pattern (<<>>) ignores nothing
ShouldIgnoreFile(filePath, ignorePattern) ==
    IF ignorePattern = <<>> THEN FALSE
    ELSE MatchString(ignorePattern[1], filePath)

\* for _, pattern := range p: the first pattern that matches ends the loop
RECURSIVE MatchesFrom(_, _, _)
MatchesFrom(items, k, filePath) ==
    IF k > Len(items) THEN FALSE
    ELSE IF MatchString(items[k], filePath) THEN TRUE
    ELSE MatchesFrom(items, k + 1, filePath)

\* variant: a set without patterns matches every path
MatchesAnyPattern_EmptyMatchesAll(p, filePath) ==
    IF Len(p.items) = 0 THEN TRUE
    ELSE MatchesFrom(p.items, 1, filePath)

\* variant: only the first pattern of the set is tried
MatchesAnyPattern_FirstOnly(p, filePath) ==
    IF Len(p.items) = 0 THEN FALSE
    ELSE MatchString(p.items[1], filePath)

\* (p IgnorePatterns) MatchesAnyPattern(filePath)
MatchesAnyPattern(p, filePath) ==
    IF Len(p.items) = 0 THEN FALSE
    ELSE MatchesFrom(p.items, 1, filePath)

ReasonIgnoreFlag == "ignore pattern (--ignore)"

ReasonIgnoreFile == ".claudewatchignore pattern"

\* variant: the patterns of the rule file are asked first
ShouldIgnorePathWithConfig_FileFirst(p, c) ==
    IF ~c.IgnorePatterns.nil /\ MatchesAnyPattern(c.IgnorePatterns, p)
    THEN [ignore |-> TRUE, reason |-> ReasonIgnoreFile]
    ELSE IF c.IgnorePattern # <<>> /\ MatchString(c.IgnorePattern[1], p)
    THEN [ignore |-> TRUE, reason |-> ReasonIgnoreFlag]
    ELSE [ignore |-> FALSE, reason |-> ""]

\* ShouldIgnorePathWithConfig(path, config)
ShouldIgnorePathWithConfig(p, c) ==
    IF c.IgnorePattern # <<>> /\ MatchString(c.IgnorePattern[1], p)
    THEN [ignore |-> TRUE, reason |-> ReasonIgnoreFlag]
    ELSE IF ~c.IgnorePatterns.nil /\ MatchesAnyPattern(c.IgnorePatterns, p)
    THEN [ignore |-> TRUE, reason |-> ReasonIgnoreFile]
    ELSE [ignore |-> FALSE, reason |-> ""]

(***************************************************************************)
(* Inputs of the matcher: the patterns and the path shapes of the tests,   *)
(* a single pattern or none, a set of up to MaxPatterns patterns or none.  *)
(***************************************************************************)
TestPatterns ==
    { <<"\\", ".", "j", "s", "$">>,   \* "\.js$"
      <<"t", "e", "m", "p", "/">>,   \* "temp/"
      <<"\\", ".", "i", "g", "n", "o", "r", "e", "$">>,   \* "\.ignore$"
      <<"t", "e", "s", "t", "_", ".", "*", "\\", ".", "g", "o">> }   \* "test_.*\.go"

TestPaths ==
    { <<"/", "p", "/", "f", "i", "l", "e", ".", "j", "s">>,   \* "/p/file.js"
      <<"/", "p", "/", "t", "e", "m", "p", "/", "f", ".", "t", "x", "t">>,   \* "/p/temp/f.txt"
      <<"/", "p", "/", "t", "e", "m", "p", "/", "x", ".", "j", "s">>,   \* "/p/temp/x.js"
      <<"/", "p", "/", "x", ".", "i", "g", "n", "o", "r", "e">>,   \* "/p/x.ignore"
      <<"/", "p", "/", "t", "e", "s", "t", "_", "m", "a", "i", "n", ".", "g", "o">>,   \* "/p/test_main.go"
      <<"/", "p", "/", "m", "a", "i", "n", "_", "t", "e", "s", "t", ".", "g", "o">>,   \* "/p/main_test.go"
      <<"/", "p", "/", "f", "i", "l", "e", ".", "j", "s", "x">> }   \* "/p/file.jsx"

PatternSets ==
    { NilSlice } \cup
    { SliceOf(ps) : ps \in UNION { [1..n -> TestPatterns] : n \in 0..MaxPatterns } }

Configs ==
    { [ZeroConfig EXCEPT !.IgnorePattern = single, !.IgnorePatterns = set] :
          single \in { <<>> } \cup { <<pat>> : pat \in TestPatterns },
          set \in PatternSets }

InitIgnore ==
    /\ path \in TestPaths
    /\ config \in Configs
    /\ igPc = "call"
    /\ igRet = NoIgnoreResult
    /\ ignoreFile = NoFile
    /\ ldI = 0
    /\ patterns = NilSlice
    /\ ldPc = "idle"
    /\ ldRet = NoLoadResult
    /\ warned = FALSE
    /\ ScannerIdle
    /\ RemoverIdle
    /\ RestIdle

\* shouldIgnore, reason := ShouldIgnorePathWithConfig(path, &config)
ShouldIgnorePath ==
    /\ igPc = "call"
    /\ igRet' = ShouldIgnorePathWithConfig(path, config)
    /\ igPc' = "done"
    /\ UNCHANGED <<path, config, ignoreFile, ldI, patterns, ldPc, ldRet, warned,
                   scannerVars, removerVars, restVars>>

NextIgnore == ShouldIgnorePath

SpecIgnore == InitIgnore /\ [][NextIgnore]_vars

(***************************************************************************)
(* Vocabulary of the matcher's properties.                                 *)
(***************************************************************************)
IgnoreDone == igPc = "done"

SingleAbsent == config.IgnorePattern = <<>>

SingleMatches == ~SingleAbsent /\ MatchString(config.IgnorePattern[1], path)

SetItems == config.IgnorePatterns.items

SomePatternMatches == \E k \in 1..Len(SetItems) : MatchString(SetItems[k], path)

(***************************************************************************)
(* C16: the single --ignore rule is asked before the patterns of the rule  *)
(* file: when it matches the path the result is true with its tag, also    *)
(* when a pattern of the rule file matches; the tag of the rule file is    *)
(* given only when the single rule is absent or does not match.            *)
(***************************************************************************)
C16_SingleRuleFirst ==
    IgnoreDone =>
        /\ SingleMatches => igRet = [ignore |-> TRUE, reason |-> ReasonIgnoreFlag]
        /\ igRet.reason = ReasonIgnoreFile => (SingleAbsent \/ ~SingleMatches)

\* the single rule and a different pattern of the rule file match the path
C16_Witness ==
    /\ IgnoreDone
    /\ SingleMatches
    /\ \E k \in 1..Len(SetItems) :
           SetItems[k] # config.IgnorePattern[1] /\ MatchString(SetItems[k], path)
    /\ igRet.reason = ReasonIgnoreFlag

(***************************************************************************)
(* C17: a set that is nil or empty matches no path, a nil single rule      *)
(* matches no path, and without a single rule and without a set the        *)
(* result is (false, "") whatever the path.                                *)
(***************************************************************************)
C17_FailsOpen ==
    IgnoreDone =>
        /\ ~MatchesAnyPattern(NilSlice, path)
        /\ ~MatchesAnyPattern(SliceOf(<<>>), path)
        /\ ~ShouldIgnoreFile(path, <<>>)
        /\ (SingleAbsent /\ Len(SetItems) = 0) => igRet = NoIgnoreResult
        /\ ShouldIgnorePathWithConfig(path, ZeroConfig) = NoIgnoreResult

\* no single rule and no set, on a path a pattern of the tests would match
C17_Witness ==
    /\ IgnoreDone
    /\ config = ZeroConfig
    /\ \E pat \in TestPatterns : MatchString(pat, path)
    /\ igRet = NoIgnoreResult

(***************************************************************************)
(* C18: MatchesAnyPattern is true exactly when some pattern of the set     *)
(* matches the path, so every order of the set gives the same answer; the  *)
(* result is true exactly when the single rule or the set matches, and     *)
(* the reason is non-empty exactly when the result is true.                *)
(***************************************************************************)
Orders(n) == { f \in [1..n -> 1..n] : \A a, b \in 1..n : f[a] = f[b] => a = b }

C18_AnyPatternAnyOrder ==
    IgnoreDone =>
        /\ MatchesAnyPattern(config.IgnorePatterns, path) <=> SomePatternMatches
        /\ \A f \in Orders(Len(SetItems)) :
               MatchesAnyPattern(SliceOf([k \in 1..Len(SetItems) |-> SetItems[f[k]]]), path)
                   = MatchesAnyPattern(config.IgnorePatterns, path)
        /\ igRet.ignore <=> (SingleMatches \/ SomePatternMatches)
        /\ igRet.reason # "" <=> igRet.ignore

\* only the last pattern of the set matches, and the single rule does not
C18_Witness ==
    /\ IgnoreDone
    /\ Len(SetItems) >= 2
    /\ ~SingleAbsent /\ ~SingleMatches
    /\ ~MatchString(SetItems[1], path)
    /\ MatchString(SetItems[Len(SetItems)], path)
    /\ igRet = [ignore |-> TRUE, reason |-> ReasonIgnoreFile]

(***************************************************************************)
(* The loader of .claudewatchignore: LoadIgnorePatterns, and the use main  *)
(* makes of its result.  The file on the disk is what os.Stat, os.Open and *)
(* the reads of the bufio.Scanner meet: stat is "absent", "error" or "ok", *)
(* open and read are "ok" or "error", content is the text of the file.     *)
(***************************************************************************)
MaxRuleLines == 3

\* the white space strings.TrimSpace cuts off (the ASCII part of it)
IsTrimmed(c) == c \in {" ", "\t", "\n", "\r", "\f"}

RECURSIVE TrimLeft(_)
TrimLeft(s) ==
    IF Len(s) > 0 /\ IsTrimmed(s[1]) THEN TrimLeft(Tail(s)) ELSE s

RECURSIVE TrimRight(_)
TrimRight(s) ==
    IF Len(s) > 0 /\ IsTrimmed(s[Len(s)]) THEN TrimRight(SubSeq(s, 1, Len(s) - 1)) ELSE s

\* strings.TrimSpace
TrimSpace(s) == TrimRight(TrimLeft(s))

\* strings.HasPrefix(line, "#")
HasHashPrefix(s) == Len(s) > 0 /\ s[1] = "#"

\* the tokens of bufio.ScanLines: the text is cut at each "\n", a "\r" before
\* it is dropped, and an empty rest after the last "\n" is no line
DropCR(l) == IF Len(l) > 0 /\ l[Len(l)] = "\r" THEN SubSeq(l, 1, Len(l) - 1) ELSE l

ScanLines(text) ==
    LET raw == Split(text)
        cut == IF raw[Len(raw)] = <<>> THEN SubSeq(raw, 1, Len(raw) - 1) ELSE raw
    IN  [k \in 1..Len(cut) |-> DropCR(cut[k])]

\* regexp.Compile succeeds: every "(" is closed and every ")" has its "(",
\* a "*" has something to repeat, and the text does not end in a lone "\"
RECURSIVE CompilesFrom(_, _, _, _)
CompilesFrom(pat, k, depth, operand) ==
    IF k > Len(pat) THEN depth = 0
    ELSE IF pat[k] = Backslash
    THEN k < Len(pat) /\ CompilesFrom(pat, k + 2, depth, TRUE)
    ELSE IF pat[k] = "(" THEN CompilesFrom(pat, k + 1, depth + 1, FALSE)
    ELSE IF pat[k] = ")" THEN depth > 0 /\ CompilesFrom(pat, k + 1, depth - 1, TRUE)
    ELSE IF pat[k] = "*" THEN operand /\ CompilesFrom(pat, k + 1, depth, FALSE)
    ELSE CompilesFrom(pat, k + 1, depth, pat[k] \notin {"^", "$"})

Compiles(pat) == CompilesFrom(pat, 1, 0, FALSE)

\* append(patterns, pattern): appending to the nil slice gives a slice
AppendPattern(ps, pat) == SliceOf(Append(ps.items, pat))

\* variant: a line that does not compile throws away what was loaded
ScanBody_BadLineClears(ps, text) ==
    LET line == TrimSpace(text)
    IN  IF line = <<>> \/ HasHashPrefix(line) THEN ps
        ELSE IF ~Compiles(line) THEN NilSlice
        ELSE AppendPattern(ps, line)

\* the body of for scanner.Scan(): the patterns after the line text
ScanBody(ps, text) ==
    LET line == TrimSpace(text)
    IN  IF line = <<>> \/ HasHashPrefix(line) THEN ps
        ELSE IF ~Compiles(line) THEN ps
        ELSE AppendPattern(ps, line)

\* variant: a file that is not there is an error
StatReturn_AbsentIsError(file) ==
    IF file.stat = "absent" THEN <<TRUE, [patterns |-> NilSlice, err |-> TRUE]>>
    ELSE IF file.stat = "error" THEN <<TRUE, [patterns |-> NilSlice, err |-> TRUE]>>
    ELSE <<FALSE, NoLoadResult>>

\* os.Stat and the two returns after it: <<returns, result>>
StatReturn(file) ==
    IF file.stat = "absent" THEN <<TRUE, [patterns |-> NilSlice, err |-> FALSE]>>
    ELSE IF file.stat = "error" THEN <<TRUE, [patterns |-> NilSlice, err |-> TRUE]>>
    ELSE <<FALSE, NoLoadResult>>

(***************************************************************************)
(* Inputs of the loader: files of up to MaxRuleLines lines of the shapes   *)
(* below, with and without the newline after the last line, the empty     *)
(* file, and the files that cannot be found, opened or read.               *)
(***************************************************************************)
RuleLines ==
    { <<"\\", ".", "j", "s", "$">>,   \* "\.js$"
      <<"\t", "t", "e", "m", "p", "/", " ">>,   \* "\ttemp/ "
      <<"#", " ", "c">>,   \* "# c"
      <<" ", "#", " ", "c">>,   \* " # c"
      <<>>,   \* ""
      <<" ", " ">>,   \* "  "
      <<"(", "x">>,   \* "(x"
      <<"\\", ".", "g", "o", " ", "#", " ", "c">> }   \* "\.go # c"

RuleFileTexts ==
    LET joined == { Join(ls) : ls \in UNION { [1..n -> RuleLines] : n \in 1..MaxRuleLines } }
    IN  joined \cup { t \o <<NL>> : t \in joined } \cup { <<>> }

RuleFiles ==
    { [stat |-> "ok", open |-> "ok", read |-> r, content |-> t] :
          r \in {"ok", "error"}, t \in RuleFileTexts }
        \cup { [stat |-> "ok", open |-> "error", read |-> "ok", content |-> <<>>],
               [stat |-> "error", open |-> "ok", read |-> "ok", content |-> <<>>],
               NoFile }

InitLoad ==
    /\ ignoreFile \in RuleFiles
    /\ ldI = 0
    /\ patterns = NilSlice
    /\ ldPc = "stat"
    /\ ldRet = NoLoadResult
    /\ warned = FALSE
    /\ path = <<>>
    /\ config = ZeroConfig
    /\ igPc = "idle"
    /\ igRet = NoIgnoreResult
    /\ ScannerIdle
    /\ RemoverIdle
    /\ RestIdle

loaderFrame ==
    <<path, igPc, igRet, ignoreFile, scannerVars, removerVars, restVars>>

\* _, err := os.Stat(ignoreFilePath) and the returns on its error
LoadStat ==
    /\ ldPc = "stat"
    /\ LET r == StatReturn(ignoreFile)
       IN  IF r[1]
           THEN ldRet' = r[2] /\ ldPc' = "returned"
           ELSE ldRet' = ldRet /\ ldPc' = "open"
    /\ UNCHANGED <<ldI, patterns, warned, config, loaderFrame>>

\* file, err := os.Open(ignoreFilePath); var patterns; scanner := bufio.NewScanner
LoadOpen ==
    /\ ldPc = "open"
    /\ IF ignoreFile.open = "error"
       THEN ldRet' = [patterns |-> NilSlice, err |-> TRUE] /\ ldPc' = "returned"
       ELSE ldRet' = ldRet /\ ldPc' = "scan"
    /\ patterns' = NilSlice
    /\ ldI' = 0
    /\ UNCHANGED <<warned, config, loaderFrame>>

\* one iteration of for scanner.Scan()
LoadLine ==
    /\ ldPc = "scan"
    /\ ldI < Len(ScanLines(ignoreFile.content))
    /\ patterns' = ScanBody(patterns, ScanLines(ignoreFile.content)[ldI + 1])
    /\ ldI' = ldI + 1
    /\ UNCHANGED <<ldPc, ldRet, warned, config, loaderFrame>>

\* a read fails: Scan returns false and scanner.Err() is returned
LoadReadError ==
    /\ ldPc = "scan"
    /\ ignoreFile.read = "error"
    /\ ldRet' = [patterns |-> NilSlice, err |-> TRUE]
    /\ ldPc' = "returned"
    /\ UNCHANGED <<ldI, patterns, warned, config, loaderFrame>>

\* the end of the file: return patterns, nil
LoadReturn ==
    /\ ldPc = "scan"
    /\ ignoreFile.read = "ok"
    /\ ldI >= Len(ScanLines(ignoreFile.content))
    /\ ldRet' = [patterns |-> patterns, err |-> FALSE]
    /\ ldPc' = "returned"
    /\ UNCHANGED <<ldI, patterns, warned, config, loaderFrame>>

\* main: the warning on an error, else config.IgnorePatterns = ignorePatterns
\* when they are not nil; the start goes on in both cases
StartupLoad ==
    /\ ldPc = "returned"
    /\ IF ldRet.err
       THEN warned' = TRUE /\ config' = config
       ELSE /\ warned' = warned
            /\ config' = IF ~ldRet.patterns.nil
                         THEN [config EXCEPT !.IgnorePatterns = ldRet.patterns]
                         ELSE config
    /\ ldPc' = "started"
    /\ UNCHANGED <<ldI, patterns, ldRet, loaderFrame>>

NextLoad ==
    LoadStat \/ LoadOpen \/ LoadLine \/ LoadReadError \/ LoadReturn \/ StartupLoad

SpecLoad == InitLoad /\ [][NextLoad]_vars

(***************************************************************************)
(* Vocabulary of the loader's properties.                                  *)
(***************************************************************************)
LoadReturned == ldPc \in {"returned", "started"}

LoadOk == LoadReturned /\ ~ldRet.err /\ ignoreFile.stat = "ok"

FileLines == ScanLines(ignoreFile.content)

\* the line gives a pattern: trimmed it is not empty, has no "#" in front
\* and compiles
GivesPattern(text) ==
    LET t == TrimSpace(text)
    IN  t # <<>> /\ t[1] # "#" /\ Compiles(t)

\* the trimmed texts of the lines that give a pattern, in the order of the file
RECURSIVE PatternsOfLines(_)
PatternsOfLines(ls) ==
    IF ls = <<>> THEN <<>>
    ELSE IF GivesPattern(ls[Len(ls)])
    THEN Append(PatternsOfLines(SubSeq(ls, 1, Len(ls) - 1)), TrimSpace(ls[Len(ls)]))
    ELSE PatternsOfLines(SubSeq(ls, 1, Len(ls) - 1))

LoadFails ==
    ignoreFile.stat = "error"
        \/ (ignoreFile.stat = "ok"
                /\ (ignoreFile.open = "error" \/ ignoreFile.read = "error"))

C20_AbsentFileIsNoError ==
    /\ (LoadReturned /\ ignoreFile.stat = "absent") =>
           /\ ldRet = [patterns |-> NilSlice, err |-> FALSE]
           /\ ldPc = "returned" => ENABLED StartupLoad
           /\ ldPc = "started" =>
                  /\ ~warned
                  /\ \A pa \in TestPaths :
                         ~ShouldIgnorePathWithConfig(pa, config).ignore
    /\ (LoadReturned /\ LoadFails) =>
           ldRet = [patterns |-> NilSlice, err |-> TRUE]

\* main has gone on without the file
C20_Witness ==
    /\ ldPc = "started"
    /\ ignoreFile.stat = "absent"
    /\ ldRet = [patterns |-> NilSlice, err |-> FALSE]
    /\ config.IgnorePatterns = NilSlice
    /\ ~warned

(***************************************************************************)
(* C21, as stated: a line that does not compile shows in the result of the *)
(* load: the result differs from the result of loading the same file       *)
(* without that line, so the caller can tell that a line was skipped.      *)
(* Fails on "(x" before "\.js$": the loop continues in silence and         *)
(* the result is the one of the file that holds "\.js$" alone.             *)
(***************************************************************************)
\* the scan loop of LoadIgnorePatterns run over the lines ls
RECURSIVE ScanAll(_, _, _)
ScanAll(ps, ls, k) ==
    IF k > Len(ls) THEN ps
    ELSE ScanAll(ScanBody(ps, ls[k]), ls, k + 1)

\* what LoadIgnorePatterns returns for a file that is read to its end
LoadedFrom(ls) == [patterns |-> ScanAll(NilSlice, ls, 1), err |-> FALSE]

\* the line is neither blank nor a comment, and does not compile
FailsToCompile(text) ==
    LET t == TrimSpace(text)
    IN  t # <<>> /\ ~HasHashPrefix(t) /\ ~Compiles(t)

WithoutLine(ls, k) == SubSeq(ls, 1, k - 1) \o SubSeq(ls, k + 1, Len(ls))

C21_SkippedLineShows ==
    LoadOk =>
        \A k \in 1..Len(FileLines) :
            FailsToCompile(FileLines[k]) =>
                ldRet # LoadedFrom(WithoutLine(FileLines, k))

(***************************************************************************)
(* The start of main: the help flag, the argument loop, the load of the    *)
(* rule file, the watcher, the watch of the root and the start of the      *)
(* assistant process.                                                      *)
(***************************************************************************)
MaxArgs == 3

\* LoadIgnorePatterns as a function of the file on the disk
LoadIgnorePatterns(file) ==
    LET st == StatReturn(file)
    IN  IF st[1] THEN st[2]
        ELSE IF file.open = "error" \/ file.read = "error"
        THEN [patterns |-> NilSlice, err |-> TRUE]
        ELSE LoadedFrom(ScanLines(file.content))

argSeparator == <<"-", "-">>

argDebug == <<"-", "-", "d", "e", "b", "u", "g">>

argPrompt == <<"-", "-", "p", "r", "o", "m", "p", "t">>

argIgnore == <<"-", "-", "i", "g", "n", "o", "r", "e">>

argHelp == <<"-", "-", "h", "e", "l", "p">>

argHelpShort == <<"-", "h">>

argHelpWord == <<"h", "e", "l", "p">>

\* template.New("prompt").Parse: an action that is opened is closed
TemplateParses(text) ==
    \A k \in 1..Len(text) :
        MatchExactAt(text, k, <<"{", "{">>) =>
            \E j \in (k + 2)..Len(text) : MatchExactAt(text, j, <<"}", "}">>)

\* os.Stat(arg) succeeds and fileInfo.IsDir(): the directories there are
ExistingDirs == { <<"s", "r", "c">> }

ErrIgnorePattern == "Error parsing ignore pattern"

ErrPromptTemplate == "Error parsing custom prompt template"

ErrWatcher == "Error creating file watcher"

ErrWatchRoot == "Error setting up recursive file watching"

ErrStart == "Error starting Claude with PTY"

ErrRawMode == "Error setting terminal to raw mode"

WarnRuleFile == "Warning: Error loading .claudewatchignore file"

\* variant: a pattern that does not compile is passed over
OnIgnoreFlag_SkipsBadPattern(c, text) ==
    [exit |-> FALSE, config |-> IF Compiles(text)
                                THEN [c EXCEPT !.IgnorePattern = <<text>>]
                                ELSE c]

\* --ignore: regexp.Compile(args[i+1]); os.Exit(1) on its error, else
\* config.IgnorePattern = pattern
OnIgnoreFlag(c, text) ==
    IF ~Compiles(text) THEN [exit |-> TRUE, config |-> c]
    ELSE [exit |-> FALSE, config |-> [c EXCEPT !.IgnorePattern = <<text>>]]

(***************************************************************************)
(* Inputs of main: up to MaxArgs arguments of the kinds below, and a rule  *)
(* file that is absent, cannot be found out about, or holds patterns.      *)
(***************************************************************************)
ArgWords ==
    { <<"-", "-">>,   \* "--"
      <<"-", "-", "d", "e", "b", "u", "g">>,   \* "--debug"
      <<"-", "-", "p", "r", "o", "m", "p", "t">>,   \* "--prompt"
      <<"-", "-", "i", "g", "n", "o", "r", "e">>,   \* "--ignore"
      <<"-", "-", "h", "e", "l", "p">>,   \* "--help"
      <<"\\", ".", "j", "s", "$">>,   \* "\.js$"
      <<"(", "x">>,   \* "(x"
      <<"s", "r", "c">>,   \* "src"
      <<"{", "{">> }   \* "{{"

ArgLists == UNION { [1..n -> ArgWords] : n \in 0..MaxArgs }

MainRuleFiles ==
    { NoFile,
      [stat |-> "error", open |-> "ok", read |-> "ok", content |-> <<>>],
      [stat |-> "ok", open |-> "ok", read |-> "ok",
       content |-> <<"(", "x", NL, "t", "e", "m", "p", "/", NL>>] }

InitMain ==
    /\ args \in ArgLists
    /\ argI = 0
    /\ claudeArgs = <<>>
    /\ watchDirSpecified = FALSE
    /\ mainPc = "help"
    /\ exitCode = NoExit
    /\ stderr = <<>>
    /\ stages = <<>>
    /\ ignoreFile \in MainRuleFiles
    /\ config = ZeroConfig
    /\ path = <<>>
    /\ igPc = "idle"
    /\ igRet = NoIgnoreResult
    /\ ldI = 0
    /\ patterns = NilSlice
    /\ ldPc = "idle"
    /\ ldRet = NoLoadResult
    /\ warned = FALSE
    /\ ScannerIdle
    /\ RemoverIdle
    /\ HiddenIdle
    /\ WatchIdle
    /\ CallsIdle
    /\ SessionIdle

mainFrame ==
    <<args, path, igPc, igRet, ignoreFile, ldI, patterns, ldPc,
      scannerVars, removerVars, hiddenVars, watchVars, callVars, sessionVars>>

\* os.Exit(1) after a message on os.Stderr
ExitWith(message) ==
    /\ stderr' = Append(stderr, message)
    /\ exitCode' = 1
    /\ mainPc' = "exit"

\* for _, arg := range os.Args[1:]: printHelp() ends the program with os.Exit(0)
MainHelp ==
    /\ mainPc = "help"
    /\ IF \E k \in 1..Len(args) : args[k] \in {argHelpShort, argHelp, argHelpWord}
       THEN exitCode' = 0 /\ mainPc' = "exit"
       ELSE exitCode' = exitCode /\ mainPc' = "args"
    /\ UNCHANGED <<argI, claudeArgs, watchDirSpecified, stderr, stages, config,
                   ldRet, warned, mainFrame>>

\* one iteration of for i := 0; i < len(args); i++
MainArg ==
    /\ mainPc = "args"
    /\ argI < Len(args)
    /\ LET arg == args[argI + 1]
           hasNext == argI + 1 < Len(args)
       IN  IF arg = argSeparator
           THEN \* claudeArgs = args[i+1:]; break
                /\ claudeArgs' = IF hasNext THEN SubSeq(args, argI + 2, Len(args))
                                 ELSE claudeArgs
                /\ argI' = Len(args)
                /\ UNCHANGED <<watchDirSpecified, mainPc, exitCode, stderr, config>>
           ELSE IF arg = argDebug
           THEN /\ config' = [config EXCEPT !.Debug = TRUE]
                /\ argI' = argI + 1
                /\ UNCHANGED <<claudeArgs, watchDirSpecified, mainPc, exitCode, stderr>>
           ELSE IF arg = argPrompt /\ hasNext
           THEN IF ~TemplateParses(args[argI + 2])
                THEN /\ ExitWith(ErrPromptTemplate)
                     /\ UNCHANGED <<argI, claudeArgs, watchDirSpecified, config>>
                ELSE /\ config' = [config EXCEPT !.PromptTemplate = args[argI + 2]]
                     /\ argI' = argI + 2
                     /\ UNCHANGED <<claudeArgs, watchDirSpecified, mainPc, exitCode,
                                    stderr>>
           ELSE IF arg = argIgnore /\ hasNext
           THEN LET r == OnIgnoreFlag(config, args[argI + 2])
                IN  IF r.exit
                    THEN /\ ExitWith(ErrIgnorePattern)
                         /\ UNCHANGED <<argI, claudeArgs, watchDirSpecified, config>>
                    ELSE /\ config' = r.config
                         /\ argI' = argI + 2
                         /\ UNCHANGED <<claudeArgs, watchDirSpecified, mainPc,
                                        exitCode, stderr>>
           ELSE IF ~watchDirSpecified /\ arg \in ExistingDirs
           THEN /\ config' = [config EXCEPT !.RootDirectory = arg]
                /\ watchDirSpecified' = TRUE
                /\ argI' = argI + 1
                /\ UNCHANGED <<claudeArgs, mainPc, exitCode, stderr>>
           ELSE /\ claudeArgs' = Append(claudeArgs, arg)
                /\ argI' = argI + 1
                /\ UNCHANGED <<watchDirSpecified, mainPc, exitCode, stderr, config>>
    /\ UNCHANGED <<stages, ldRet, warned, mainFrame>>

\* the end of the loop: config.ClaudeArgs = claudeArgs
MainArgsDone ==
    /\ mainPc = "args"
    /\ argI >= Len(args)
    /\ config' = [config EXCEPT !.ClaudeArgs = claudeArgs]
    /\ mainPc' = "load"
    /\ UNCHANGED <<argI, claudeArgs, watchDirSpecified, exitCode, stderr, stages,
                   ldRet, warned, mainFrame>>

\* ignorePatterns, err := LoadIgnorePatterns(config.RootDirectory): the
\* warning on an error, else config.IgnorePatterns when they are not nil
MainLoad ==
    /\ mainPc = "load"
    /\ LET r == LoadIgnorePatterns(ignoreFile)
       IN  /\ ldRet' = r
           /\ IF r.err
              THEN /\ stderr' = Append(stderr, WarnRuleFile)
                   /\ warned' = TRUE
                   /\ config' = config
              ELSE /\ stderr' = stderr
                   /\ warned' = warned
                   /\ config' = IF ~r.patterns.nil
                                THEN [config EXCEPT !.IgnorePatterns = r.patterns]
                                ELSE config
    /\ stages' = Append(stages, "load")
    /\ mainPc' = "watcher"
    /\ UNCHANGED <<argI, claudeArgs, watchDirSpecified, exitCode, mainFrame>>

\* watcher, err := fsnotify.NewWatcher()
MainNewWatcher ==
    /\ mainPc = "watcher"
    /\ \E ok \in BOOLEAN :
           IF ok
           THEN /\ stages' = Append(stages, "watcher")
                /\ mainPc' = "watch"
                /\ UNCHANGED <<exitCode, stderr>>
           ELSE ExitWith(ErrWatcher) /\ stages' = stages
    /\ UNCHANGED <<argI, claudeArgs, watchDirSpecified, config, ldRet, warned,
                   mainFrame>>

\* err = watchDirectory(watcher, config.RootDirectory, &config, false): its
\* error is written and the start goes on
MainWatchRoot ==
    /\ mainPc = "watch"
    /\ \E ok \in BOOLEAN :
           stderr' = IF ok THEN stderr ELSE Append(stderr, ErrWatchRoot)
    /\ stages' = Append(stages, "watch")
    /\ mainPc' = "start"
    /\ UNCHANGED <<argI, claudeArgs, watchDirSpecified, exitCode, config, ldRet,
                   warned, mainFrame>>

\* ptyMaster, err := pty.Start(claudeCmd)
MainStartClaude ==
    /\ mainPc = "start"
    /\ \E ok \in BOOLEAN :
           IF ok
           THEN /\ stages' = Append(stages, "start")
                /\ mainPc' = "raw"
                /\ UNCHANGED <<exitCode, stderr>>
           ELSE ExitWith(ErrStart) /\ stages' = stages
    /\ UNCHANGED <<argI, claudeArgs, watchDirSpecified, config, ldRet, warned,
                   mainFrame>>

\* oldState, err := term.MakeRaw(int(os.Stdin.Fd()))
MainRawMode ==
    /\ mainPc = "raw"
    /\ \E ok \in BOOLEAN :
           IF ok
           THEN /\ mainPc' = "running"
                /\ UNCHANGED <<exitCode, stderr>>
           ELSE ExitWith(ErrRawMode)
    /\ UNCHANGED <<argI, claudeArgs, watchDirSpecified, stages, config, ldRet,
                   warned, mainFrame>>

NextMain ==
    \/ MainHelp
    \/ MainArg
    \/ MainArgsDone
    \/ MainLoad
    \/ MainNewWatcher
    \/ MainWatchRoot
    \/ MainStartClaude
    \/ MainRawMode

SpecMain == InitMain /\ [][NextMain]_vars

(***************************************************************************)
(* C22: when the pattern of --ignore does not compile, main writes the     *)
(* error and exits with status 1 before the rule file is loaded, before    *)
(* the watcher is made or a directory watched, and before the assistant    *)
(* process is started.                                                     *)
(***************************************************************************)
Written(message) == \E k \in 1..Len(stderr) : stderr[k] = message

HelpAsked ==
    \E k \in 1..Len(args) : args[k] \in {argHelpShort, argHelp, argHelpWord}

C22_BadIgnoreRuleIsFatal ==
    /\ Written(ErrIgnorePattern) =>
           /\ mainPc = "exit"
           /\ exitCode = 1
           /\ stages = <<>>
           /\ ldRet = NoLoadResult
           /\ config.IgnorePatterns = NilSlice
    /\ (/\ Len(args) >= 2
        /\ args[1] = argIgnore
        /\ ~Compiles(args[2])
        /\ ~HelpAsked
        /\ mainPc \notin {"help", "args"}) =>
           Written(ErrIgnorePattern)

\* the bad pattern comes after the directory and the debug flag were taken
C22_Witness ==
    /\ Written(ErrIgnorePattern)
    /\ argI >= 1
    /\ mainPc = "exit"
    /\ exitCode = 1
    /\ stages = <<>>
    /\ ignoreFile.stat = "ok"

(***************************************************************************)
(* IsHiddenOrSpecialFile: the base name of the path, the dot rule and the  *)
(* names of the temporary files of Emacs.                                  *)
(***************************************************************************)
HasPrefix(s, prefix) == MatchExactAt(s, 1, prefix)

HasSuffix(s, suffix) ==
    /\ Len(s) >= Len(suffix)
    /\ MatchExactAt(s, Len(s) - Len(suffix) + 1, suffix)

\* the path without its trailing slashes
RECURSIVE StripSlashes(_)
StripSlashes(p) ==
    IF Len(p) > 0 /\ p[Len(p)] = "/" THEN StripSlashes(SubSeq(p, 1, Len(p) - 1))
    ELSE p

\* the index of the last "/" in p, 0 when there is none
LastSlash(p) ==
    LET at == { k \in 1..Len(p) : p[k] = "/" }
    IN  IF at = {} THEN 0 ELSE CHOOSE k \in at : \A j \in at : j <= k

\* filepath.Base: "." for the empty path, "/" for a path of slashes only,
\* else what follows the last slash once the trailing slashes are gone
Base(p) ==
    IF p = <<>> THEN <<".">>
    ELSE LET q == StripSlashes(p)
             r == SubSeq(q, LastSlash(q) + 1, Len(q))
         IN  IF r = <<>> THEN <<"/">> ELSE r

isEmacsTemp(filename) ==
    IF HasPrefix(filename, <<"#">>) /\ HasSuffix(filename, <<"#">>) THEN TRUE
    ELSE IF HasSuffix(filename, <<"~">>) THEN TRUE
    ELSE IF HasPrefix(filename, <<".", "#">>) THEN TRUE
    ELSE FALSE

\* variant: the rules are applied to the whole path
IsHiddenOrSpecialFile_WholePath(filePath) ==
    IF filePath = <<".", ".">> THEN TRUE
    ELSE IF HasPrefix(filePath, <<".">>) /\ filePath # <<".">> THEN TRUE
    ELSE IF isEmacsTemp(filePath) THEN TRUE
    ELSE FALSE

IsHiddenOrSpecialFile(filePath) ==
    LET baseName == Base(filePath)
    IN  IF baseName = <<".", ".">> THEN TRUE
        ELSE IF HasPrefix(baseName, <<".">>) /\ baseName # <<".">> THEN TRUE
        ELSE IF isEmacsTemp(baseName) THEN TRUE
        ELSE FALSE

(***************************************************************************)
(* Inputs: a parent part, a last element, and a trailing slash or none.    *)
(***************************************************************************)
ParentParts ==
    { <<>>,   \* ""
      <<"/">>,   \* "/"
      <<"/", "p", "/", "t", "o", "/">>,   \* "/p/to/"
      <<"/", "p", "/", "w", "i", "t", "h", ".", "/">>,   \* "/p/with./"
      <<".", "d", "/">>,   \* ".d/"
      <<".", "/">>,   \* "./"
      <<".", ".", "/">> }   \* "../"

LastElements ==
    { <<".", "h">>,   \* ".h"
      <<"n", ".", "t">>,   \* "n.t"
      <<"#", "t", "#">>,   \* "#t#"
      <<"f", "~">>,   \* "f~"
      <<".", "#", "t">>,   \* ".#t"
      <<".", ".">>,   \* ".."
      <<".">>,   \* "."
      <<"#">>,   \* "#"
      <<"~">>,   \* "~"
      <<"t", "#">>,   \* "t#"
      <<"#", "t">>,   \* "#t"
      <<".", "~">> }   \* ".~"

TrailingParts == { <<>>, <<"/">> }

HiddenPaths ==
    { d \o e \o t : d \in ParentParts, e \in LastElements \cup {<<>>},
                    t \in TrailingParts }

InitHidden ==
    /\ hidPath \in HiddenPaths
    /\ hidPc = "call"
    /\ hidRet = FALSE
    /\ ScannerIdle
    /\ RemoverIdle
    /\ IgnoreIdle
    /\ MainIdle
    /\ WatchIdle
    /\ CallsIdle
    /\ SessionIdle

HiddenCheck ==
    /\ hidPc = "call"
    /\ hidRet' = IsHiddenOrSpecialFile(hidPath)
    /\ hidPc' = "done"
    /\ UNCHANGED <<hidPath, scannerVars, removerVars, ignoreVars, mainVars, watchVars,
                   callVars, sessionVars>>

NextHidden == HiddenCheck

SpecHidden == InitHidden /\ [][NextHidden]_vars

(***************************************************************************)
(* C26: IsHiddenOrSpecialFile(path) is true exactly when the base name of  *)
(* the path is "..", or starts with "." and is not ".", or ends with "~",  *)
(* or starts and ends with "#".  The parent part of the path has no say:   *)
(* a path made of a parent part and a last element is hidden exactly when  *)
(* the last element is, and "." is not hidden.                             *)
(***************************************************************************)
HiddenName(name) ==
    \/ name = <<".", ".">>
    \/ Len(name) > 0 /\ name[1] = "." /\ name # <<".">>
    \/ Len(name) > 0 /\ name[Len(name)] = "~"
    \/ Len(name) > 0 /\ name[1] = "#" /\ name[Len(name)] = "#"

MaxEdits == 2

MaxTicks == 3

TickMs == 500

\* time.Second, in milliseconds
DebounceMs == 1000

\* removeAIMarkersFromContent as a function of the content and the markers
RECURSIVE RemoveFrom(_, _, _, _)
RemoveFrom(ls, ms, k, ums) ==
    IF k > Len(ms) THEN OkReturn(ls, ums)
    ELSE IF ~ValidLineNumber(ms[k], ls) THEN ErrorReturn(ls, ums)
    ELSE LET lineNumber == ms[k].LineNumber
             new == updatedLine(ls[lineNumber])
         IN  RemoveFrom(SetLine(ls, lineNumber, new), ms, k + 1,
                        [ums EXCEPT ![k] = AIMarkerLocation(lineNumber, new)])

removeAIMarkersFromContent(text, ms) ==
    RemoveFrom(Split(text), ms, 1, [k \in 1..Len(ms) |-> AIMarkerLocation(0, <<>>)])

\* variant: the content is written whatever the removal has returned
WritesFile_Always(r) == TRUE

\* removeAIMarkersFromFile: os.WriteFile is reached when err == nil
WritesFile(r) == ~r.err

\* variant: only the hidden and special files are passed over
SkipsPath_HiddenOnly(name, c) ==
    IF IsHiddenOrSpecialFile(name) THEN <<"hidden">>
    ELSE <<>>

\* the two checks of the handler on event.Name, in their order: the check
\* that passes the event over, or none
SkipsPath(name, c) ==
    IF IsHiddenOrSpecialFile(name) THEN <<"hidden">>
    ELSE IF ShouldIgnorePathWithConfig(name, c).ignore THEN <<"ignore">>
    ELSE <<>>

pathNormal == <<"/", "p", "/", "a", ".", "g", "o">>   \* "/p/a.go"

pathIgnoredFlag == <<"/", "p", "/", "a", ".", "j", "s">>   \* "/p/a.js"

pathIgnoredFile == <<"/", "p", "/", "t", "e", "m", "p", "/", "a", ".", "g", "o">>   \* "/p/temp/a.go"

pathHidden == <<"/", "p", "/", ".", "a", ".", "g", "o">>   \* "/p/.a.go"

pathDir == <<"/", "p", "/", "s", "u", "b">>   \* "/p/sub"

pathOther == <<"/", "p", "/", "b", ".", "g", "o">>   \* "/p/b.go"

WatchFilePaths == {pathNormal, pathOther, pathIgnoredFlag, pathIgnoredFile, pathHidden}

WatchPaths == WatchFilePaths \cup {pathDir}

WatchTexts ==
    { <<"x">>,                                              \* "x"
      cSlashes \o cSp \o <<"f", "i", "x">> \o cSp \o cBang, \* "// fix ai!"
      <<"x", NL>> \o cSlashes \o cSp \o <<"f", "i", "x">> \o cSp \o cBang,
                                                            \* "x\n// fix ai!"
      cSlashes \o cSp \o <<"a">> \o cBang \o <<"i", "!">> }  \* "// aai!i!"

\* --ignore \.js$ and a rule file with the line temp/
WatchConfig ==
    [ZeroConfig EXCEPT !.IgnorePattern = << <<"\\", ".", "j", "s", "$">> >>,
                       !.IgnorePatterns = SliceOf(<< <<"t", "e", "m", "p", "/">> >>)]

InitWatch ==
    /\ files \in { [p \in WatchPaths |->
                      [IsDir |-> p = pathDir,
                       content |-> IF p = pathDir THEN <<>>
                                   ELSE IF p = pathNormal THEN t
                                   ELSE IF p = pathOther THEN <<"x">>
                                   ELSE cSlashes \o cSp \o <<"f", "i", "x">> \o cSp \o cBang]] :
                   t \in WatchTexts }
    /\ events = <<>>
    /\ event = NoEvent
    /\ processedFiles = [p \in WatchPaths |-> [exists |-> FALSE, at |-> 0]]
    /\ now = 0
    /\ evPc = "select"
    /\ markersFound = <<>>
    /\ updatedContent = <<>>
    /\ updatedFound = <<>>
    /\ fileRet = NoFileResult
    /\ promptChan = <<>>
    /\ effects = <<>>
    /\ edits = 0
    /\ config = WatchConfig
    /\ path = <<>>
    /\ igPc = "idle"
    /\ igRet = NoIgnoreResult
    /\ ignoreFile = NoFile
    /\ ldI = 0
    /\ patterns = NilSlice
    /\ ldPc = "idle"
    /\ ldRet = NoLoadResult
    /\ warned = FALSE
    /\ ScannerIdle
    /\ RemoverIdle
    /\ MainIdle
    /\ HiddenIdle
    /\ CallsIdle
    /\ SessionIdle

watchFrame ==
    <<scannerVars, removerVars, ignoreVars, mainVars, hiddenVars, callVars,
      sessionVars>>

\* another writer writes a file anew or changes its mode, or makes the
\* directory; the watcher queues the event.  One plain file is written with
\* any of the texts, the other plain file is made anew with the text it has,
\* the hidden and the ignored files are written with the text they have.
FileChanged ==
    /\ edits < MaxEdits
    /\ \E p \in WatchPaths, t \in WatchTexts, op \in {"Write", "Create", "Chmod"} :
           /\ files[p].IsDir => op = "Create" /\ t = <<"x">>
           /\ op = "Chmod" => p = pathNormal /\ t = files[p].content
           /\ p = pathNormal => op # "Create"
           /\ (~files[p].IsDir /\ p # pathNormal) =>
                  /\ t = files[p].content
                  /\ op = IF p = pathOther THEN "Create" ELSE "Write"
           /\ files' = IF files[p].IsDir THEN files
                       ELSE [files EXCEPT ![p].content = t]
           /\ events' = Append(events, [Name |-> p, Op |-> op, By |-> "other",
                                         Wrote |-> <<>>])
    /\ edits' = edits + 1
    /\ UNCHANGED <<event, processedFiles, now, evPc, markersFound, updatedContent,
                   updatedFound, fileRet, promptChan, effects, watchFrame>>

\* time passes
Tick ==
    /\ now < MaxTicks * TickMs
    /\ now' = now + TickMs
    /\ UNCHANGED <<files, events, event, processedFiles, evPc, markersFound,
                   updatedContent, updatedFound, fileRet, promptChan, effects,
                   edits, watchFrame>>

\* variant: one time of acceptance for all the paths
RecentlyProcessed_AnyPath(pf, name, t) ==
    \E q \in DOMAIN pf : pf[q].exists /\ t - pf[q].at < DebounceMs

\* lastProcessed, exists := processedFiles[event.Name];
\* exists && now.Sub(lastProcessed) < time.Second
RecentlyProcessed(pf, name, t) ==
    pf[name].exists /\ t - pf[name].at < DebounceMs

\* case event, ok := <-watcher.Events, down to processedFiles[event.Name] = now
HandleEvent ==
    /\ evPc = "select"
    /\ events # <<>>
    /\ LET e == Head(events)
           skip == SkipsPath(e.Name, config)
           recent == RecentlyProcessed(processedFiles, e.Name, now)
       IN  /\ event' = e
           /\ events' = Tail(events)
           /\ \E statOk \in BOOLEAN :
                  IF e.Op \notin {"Write", "Create"}
                  THEN /\ effects' = <<>>
                       /\ evPc' = "select"
                       /\ processedFiles' = processedFiles
                  ELSE IF ~statOk
                  THEN /\ effects' = <<"stat">>
                       /\ evPc' = "select"
                       /\ processedFiles' = processedFiles
                  ELSE IF files[e.Name].IsDir /\ e.Op = "Create"
                  THEN /\ effects' = <<"stat", "watchDirectory">>
                       /\ evPc' = "select"
                       /\ processedFiles' = processedFiles
                  ELSE IF skip = <<"hidden">>
                  THEN /\ effects' = <<"stat", "hidden">>
                       /\ evPc' = "select"
                       /\ processedFiles' = processedFiles
                  ELSE IF skip = <<"ignore">>
                  THEN /\ effects' = <<"stat", "hidden", "ignore">>
                       /\ evPc' = "select"
                       /\ processedFiles' = processedFiles
                  ELSE IF recent
                  THEN /\ effects' = <<"stat", "hidden", "ignore", "debounce">>
                       /\ evPc' = "select"
                       /\ processedFiles' = processedFiles
                  ELSE /\ effects' = <<"stat", "hidden", "ignore", "debounce">>
                       /\ evPc' = "read"
                       /\ processedFiles' =
                              [processedFiles EXCEPT ![e.Name] =
                                                         [exists |-> TRUE, at |-> now]]
    /\ UNCHANGED <<files, now, markersFound, updatedContent, updatedFound, fileRet,
                   promptChan, edits, watchFrame>>

\* content, err := os.ReadFile(event.Name); markers := findActiveAIMarkers(...);
\* len(markers) > 0; filepath.Abs; the log of the change
ReadEventFile ==
    /\ evPc = "read"
    /\ \E readOk \in BOOLEAN, absOk \in BOOLEAN :
           IF ~readOk
           THEN /\ effects' = Append(effects, "readError")
                /\ evPc' = "select"
                /\ markersFound' = markersFound
           ELSE LET found == findActiveAIMarkers(files[event.Name].content)
                IN  /\ markersFound' = found
                    /\ IF Len(found) > 0 /\ absOk
                       THEN /\ effects' = effects \o <<"read", "scan", "log">>
                            /\ evPc' = "removeRead"
                       ELSE /\ effects' = effects \o <<"read", "scan">>
                            /\ evPc' = "select"
    /\ UNCHANGED <<files, events, event, processedFiles, now, updatedContent,
                   updatedFound, fileRet, promptChan, edits, watchFrame>>

\* removeAIMarkersFromFile: os.ReadFile and removeAIMarkersFromContent; an
\* error of either returns (nil, err) and the handler writes it
RemoverRead ==
    /\ evPc = "removeRead"
    /\ \E readOk \in BOOLEAN :
           LET r == removeAIMarkersFromContent(files[event.Name].content, markersFound)
           IN  IF ~readOk
               THEN /\ fileRet' = [updatedMarkers |-> NilSlice, err |-> TRUE]
                    /\ effects' = effects \o <<"removeReadError", "Error removing AI markers">>
                    /\ evPc' = "select"
                    /\ UNCHANGED <<updatedContent, updatedFound>>
               ELSE IF ~WritesFile(r)
               THEN /\ fileRet' = [updatedMarkers |-> NilSlice, err |-> TRUE]
                    /\ effects' = effects \o <<"removeRead", "removeError",
                                               "Error removing AI markers">>
                    /\ evPc' = "select"
                    /\ UNCHANGED <<updatedContent, updatedFound>>
               ELSE /\ updatedContent' = r.updatedContent
                    /\ updatedFound' = r.updatedMarkers
                    /\ fileRet' = NoFileResult
                    /\ effects' = Append(effects, "removeRead")
                    /\ evPc' = "removeWrite"
    /\ UNCHANGED <<files, events, event, processedFiles, now, markersFound,
                   promptChan, edits, watchFrame>>

\* removeAIMarkersFromFile: os.WriteFile(filePath, []byte(updatedContent), 0644)
\* and the return; the watcher queues the event of this write.  WriteFile
\* fails before it has opened the file, or after it has truncated it.
RemoverWrite ==
    /\ evPc = "removeWrite"
    /\ \E outcome \in {"ok", "openError", "writeError"} :
           IF outcome = "openError"
           THEN /\ fileRet' = [updatedMarkers |-> NilSlice, err |-> TRUE]
                /\ effects' = effects \o <<"writeError", "Error removing AI markers">>
                /\ evPc' = "select"
                /\ UNCHANGED <<files, events>>
           ELSE IF outcome = "writeError"
           THEN /\ files' = [files EXCEPT ![event.Name].content = <<>>]
                /\ events' = Append(events, [Name |-> event.Name, Op |-> "Write",
                                              By |-> "program", Wrote |-> <<>>])
                /\ fileRet' = [updatedMarkers |-> NilSlice, err |-> TRUE]
                /\ effects' = effects \o <<"writeError", "Error removing AI markers">>
                /\ evPc' = "select"
           ELSE /\ files' = [files EXCEPT ![event.Name].content = updatedContent]
                /\ events' = Append(events, [Name |-> event.Name, Op |-> "Write",
                                              By |-> "program",
                                              Wrote |-> updatedContent])
                /\ fileRet' = [updatedMarkers |-> updatedFound, err |-> FALSE]
                /\ effects' = Append(effects, "rewrite")
                /\ evPc' = "send"
    /\ UNCHANGED <<event, processedFiles, now, markersFound, updatedContent,
                   updatedFound, promptChan, edits, watchFrame>>

\* variant: the prompt is built from the markers as they were found
TemplateData_OriginalMarkers(file, original, updated) ==
    [File |-> file, Markers |-> original]

\* data := TemplateData{File: absPath, Markers: updatedMarkers}
TemplateData(file, original, updated) == [File |-> file, Markers |-> updated]

\* config.PromptTemplate.Execute(&promptBuf, data); promptChan <- promptBuf.String()
SendPrompt ==
    /\ evPc = "send"
    /\ promptChan = <<>>
    /\ \E executeOk \in BOOLEAN :
           IF ~executeOk
           THEN /\ effects' = Append(effects, "Error executing prompt template")
                /\ evPc' = "select"
                /\ promptChan' = promptChan
           ELSE /\ promptChan' = << TemplateData(event.Name, markersFound,
                                                 fileRet.updatedMarkers.items) >>
                /\ effects' = Append(effects, "prompt")
                /\ evPc' = "sending"
    /\ UNCHANGED <<files, events, event, processedFiles, now, markersFound,
                   updatedContent, updatedFound, fileRet, edits, watchFrame>>

\* for prompt := range promptChan: the receive that lets the send return
PromptReceive ==
    /\ evPc = "sending"
    /\ promptChan # <<>>
    /\ promptChan' = <<>>
    /\ evPc' = "select"
    /\ UNCHANGED <<files, events, event, processedFiles, now, markersFound,
                   updatedContent, updatedFound, fileRet, effects, edits, watchFrame>>

NextWatch ==
    \/ FileChanged
    \/ Tick
    \/ HandleEvent
    \/ ReadEventFile
    \/ RemoverRead
    \/ RemoverWrite
    \/ SendPrompt
    \/ PromptReceive

SpecWatch == InitWatch /\ [][NextWatch]_vars

(***************************************************************************)
(* Vocabulary of the properties of the monitoring goroutine.               *)
(***************************************************************************)
Did(what) == \E k \in 1..Len(effects) : effects[k] = what

DidBefore(first, then) ==
    \E j \in 1..Len(effects), k \in 1..Len(effects) :
        j < k /\ effects[j] = first /\ effects[k] = then

EventTaken == event # NoEvent

PathHidden == HiddenName(Base(event.Name))

PathIgnored ==
    \/ config.IgnorePattern # <<>> /\ MatchString(config.IgnorePattern[1], event.Name)
    \/ \E k \in 1..Len(config.IgnorePatterns.items) :
           MatchString(config.IgnorePatterns.items[k], event.Name)

(***************************************************************************)
(* C23: for every file event the hidden-file check and the ignore rules    *)
(* come before the read of the file, and an event whose path is hidden or  *)
(* matches the --ignore rule or a pattern of the rule file leads to no     *)
(* read, no scan, no rewrite of the file and no prompt.                    *)
(***************************************************************************)
C23_IgnoredPathsNeverScanned ==
    EventTaken =>
        /\ (Did("read") \/ Did("readError")) =>
               /\ DidBefore("hidden", "read") \/ DidBefore("hidden", "readError")
               /\ DidBefore("ignore", "read") \/ DidBefore("ignore", "readError")
        /\ (PathHidden \/ PathIgnored) =>
               /\ evPc = "select"
               /\ ~Did("read") /\ ~Did("readError")
               /\ ~Did("scan")
               /\ ~Did("removeRead") /\ ~Did("rewrite")
               /\ ~Did("prompt")

\* the event of a file below temp/ that holds a marker has been passed over
C23_Witness ==
    /\ event.Name = pathIgnoredFile
    /\ event.Op = "Write"
    /\ Len(findActiveAIMarkers(files[event.Name].content)) > 0
    /\ effects = <<"stat", "hidden", "ignore">>

(***************************************************************************)
(* C25: removeAIMarkersFromFile writes the file only after the removal in  *)
(* memory has succeeded.  When its read fails or an occurrence is out of   *)
(* the range of the lines it has read, it returns no occurrences and an    *)
(* error, the file stays as it is and nothing is sent; the program changes *)
(* a file only in the write that follows a removal without an error.       *)
(***************************************************************************)
OccurrenceOutOfRange ==
    \E k \in 1..Len(markersFound) :
        markersFound[k].LineNumber \notin 1..Len(Split(files[event.Name].content))

RemoverHasRead == evPc = "removeRead" /\ evPc' # "removeRead"

WrittenByProgram == files' # files /\ edits' = edits

C25_WritesOnlyAfterRemoval ==
    [][ /\ RemoverHasRead =>
               /\ files' = files
               /\ (OccurrenceOutOfRange \/ Did("removeReadError")') =>
                      /\ evPc' = "select"
                      /\ fileRet' = [updatedMarkers |-> NilSlice, err |-> TRUE]
                      /\ promptChan' = promptChan
                      /\ events' = events
        /\ WrittenByProgram =>
               /\ evPc = "removeWrite"
               /\ Did("removeRead") /\ ~Did("removeError") /\ ~Did("removeReadError")
               /\ ~fileRet'.err =>
                      files' = [files EXCEPT ![event.Name].content = updatedContent]
      ]_vars

\* the file was cut to one line between the read of the handler and the read
\* of the remover: the occurrence of line 2 is out of range, the file is as
\* the other writer left it
C25_Witness ==
    /\ evPc = "select"
    /\ Did("removeError")
    /\ fileRet = [updatedMarkers |-> NilSlice, err |-> TRUE]
    /\ Len(markersFound) > 0
    /\ markersFound[1].LineNumber = 2
    /\ files[event.Name].content = <<"x">>
    /\ promptChan = <<>>

(***************************************************************************)
(* findActiveAIMarkers called again and again, by two goroutines at once:  *)
(* lines, markers, ignoreNextAI and the loop index are locals of each      *)
(* invocation.  The steps of the two invocations interleave line by line.  *)
(***************************************************************************)
MaxCalls == 3

Goroutines == {"g1", "g2"}

CallTexts ==
    { <<"x">>,                                                   \* "x"
      cSlashes \o cSp \o cIgnore,                                \* "// ai:ignore"
      cSlashes \o cSp \o cBang,                                  \* "// ai!"
      <<"x", NL>> \o cSlashes \o cSp \o cIgnore,                 \* "x\n// ai:ignore"
      cSlashes \o cSp \o cIgnore \o <<NL>> \o cSlashes \o cSp \o cBang,
                                                                 \* "// ai:ignore\n// ai!"
      cSlashes \o cSp \o cBang \o <<NL>> \o cSlashes \o cSp \o cBang }
                                                                 \* "// ai!\n// ai!"

\* a goroutine that has not called yet
NoCall ==
    [content |-> <<>>, lines |-> <<>>, i |-> 0, ignoreNextAI |-> FALSE,
     markers |-> <<>>, pc |-> "idle", n |-> 0, prev |-> <<>>]

\* variant: the flag is kept from the invocation before
StartLocals_KeepsFlag(old, text) ==
    [content |-> text, lines |-> Split(text), i |-> 0,
     ignoreNextAI |-> old.ignoreNextAI, markers |-> <<>>, pc |-> "loop",
     n |-> old.n + 1, prev |-> old.content]

\* lines := strings.Split(content, "\n"); var markers; ignoreNextAI := false;
\* n counts the invocations of the goroutine, prev is the text of the last
StartLocals(old, text) ==
    [content |-> text, lines |-> Split(text), i |-> 0,
     ignoreNextAI |-> FALSE, markers |-> <<>>, pc |-> "loop",
     n |-> old.n + 1, prev |-> old.content]

CallsMade == calls["g1"].n + calls["g2"].n

InitCalls ==
    /\ calls = [g \in Goroutines |-> NoCall]
    /\ ScannerIdle
    /\ RemoverIdle
    /\ IgnoreIdle
    /\ MainIdle
    /\ HiddenIdle
    /\ WatchIdle
    /\ SessionIdle

callFrame ==
    <<scannerVars, removerVars, ignoreVars, mainVars, hiddenVars, watchVars,
      sessionVars>>

\* a goroutine calls findActiveAIMarkers(content)
CallStart(g) ==
    /\ calls[g].pc \in {"idle", "done"}
    /\ CallsMade < MaxCalls
    /\ \E text \in CallTexts : calls' = [calls EXCEPT ![g] = StartLocals(calls[g], text)]
    /\ UNCHANGED callFrame

\* one iteration of for i, line := range lines in the invocation of g
CallLine(g) ==
    /\ calls[g].pc = "loop"
    /\ calls[g].i < Len(calls[g].lines)
    /\ LET c == calls[g]
           r == LoopBody(c.ignoreNextAI, c.markers, c.lines[c.i + 1], c.i + 1)
       IN  calls' = [calls EXCEPT ![g].ignoreNextAI = r.ignoreNextAI,
                                  ![g].markers = r.markers,
                                  ![g].i = c.i + 1]
    /\ UNCHANGED callFrame

\* return markers
CallReturn(g) ==
    /\ calls[g].pc = "loop"
    /\ calls[g].i >= Len(calls[g].lines)
    /\ calls' = [calls EXCEPT ![g].pc = "done"]
    /\ UNCHANGED callFrame

NextCalls == \E g \in Goroutines : CallStart(g) \/ CallLine(g) \/ CallReturn(g)

SpecCalls == InitCalls /\ [][NextCalls]_vars

(***************************************************************************)
(* C24: the scan holds no state between invocations.  Every invocation     *)
(* starts with the suppression off, and whatever ran before it in the      *)
(* same goroutine or runs beside it in the other one, what it returns is   *)
(* what the scan of its text gives alone.                                  *)
(***************************************************************************)
EndsOnDirective(text) ==
    LET ls == Split(text)
    IN  Len(ls) > 0 /\ LET c == ClassOf(ls[Len(ls)]) IN c.comment /\ c.ignore /\ ~c.marker

C24_NoStateBetweenScans ==
    \A g \in Goroutines :
        /\ (calls[g].pc = "loop" /\ calls[g].i = 0) => ~calls[g].ignoreNextAI
        /\ calls[g].pc = "done" =>
               calls[g].markers = findActiveAIMarkers(calls[g].content)

\* a scan that emits its first line has returned in a goroutine whose scan
\* before ended on a directive-only line, while the other goroutine is in
\* the middle of a text with the suppression pending
C24_Witness ==
    /\ calls["g1"].pc = "done"
    /\ calls["g1"].n = 2
    /\ EndsOnDirective(calls["g1"].prev)
    /\ Len(calls["g1"].markers) = 1
    /\ calls["g1"].markers[1].LineNumber = 1
    /\ calls["g2"].pc = "loop"
    /\ calls["g2"].i = 1
    /\ calls["g2"].ignoreNextAI

(***************************************************************************)
(* C27: findActiveAIMarkers does what the machine with the two states Idle *)
(* and SuppressPending does that takes the lines one by one and applies    *)
(* the four cases in their order: both on the same line (no change), a     *)
(* directive-only comment (to SuppressPending), a marker-bearing comment   *)
(* (withheld and back to Idle when pending, else emitted), any other line  *)
(* (to Idle).  After every line the flag is set exactly when the machine   *)
(* is in SuppressPending, and the occurrences are the same.                *)
(***************************************************************************)
MachineStep(m, line, lineNumber) ==
    LET c == ClassOf(line)
    IN  CASE c.comment /\ c.ignore /\ c.marker -> m
          [] c.comment /\ c.ignore /\ ~c.marker ->
                 [state |-> "SuppressPending", out |-> m.out]
          [] c.comment /\ c.marker /\ ~c.ignore ->
                 IF m.state = "SuppressPending"
                 THEN [state |-> "Idle", out |-> m.out]
                 ELSE [state |-> "Idle",
                       out |-> Append(m.out, [LineNumber |-> lineNumber,
                                              LineText |-> line])]
          [] OTHER -> [state |-> "Idle", out |-> m.out]

RECURSIVE MachineAfter(_, _)
MachineAfter(ls, k) ==
    IF k = 0 THEN [state |-> "Idle", out |-> <<>>]
    ELSE MachineStep(MachineAfter(ls, k - 1), ls[k], k)

C27_SameAsTwoStateMachine ==
    pc \in {"loop", "done"} =>
        LET m == MachineAfter(lines, i)
        IN  /\ ignoreNextAI <=> (m.state = "SuppressPending")
            /\ markers = m.out
            /\ \A n \in 1..i :
                   ignoreAt[n] <=> (MachineAfter(lines, n - 1).state = "SuppressPending")

\* a text of four lines that takes the machine through all four cases
C27_Witness ==
    /\ Returned
    /\ i = 4
    /\ \E n \in LineNos : IsBothLine(n)
    /\ \E n \in LineNos : IsDirectiveOnly(n) /\ IgnoreAfter(n)
    /\ \E n \in LineNos : IsMarkerLine(n) /\ Emitted(n)
    /\ \E n \in LineNos : IsOtherLine(n) /\ ignoreAt[n]

(***************************************************************************)
(* C28: the scan of a text returns; until then each step of the loop takes *)
(* the line after the last one taken, so every line is examined once and   *)
(* in the order of the text; and a line adds at most one occurrence, so    *)
(* there are never more occurrences than lines examined.                   *)
(***************************************************************************)
OneLineOneStep ==
    /\ pc = "loop" /\ pc' = "loop" => i' = i + 1 /\ lines' = lines
    /\ pc = "loop" /\ pc' = "done" => i = Len(lines) /\ i' = i /\ markers' = markers
    /\ pc = "loop" => Len(markers') <= Len(markers) + 1
    /\ pc = "done" => pc' = "done"

C28_TerminatesOneOccurrencePerLine ==
    /\ <>Returned
    /\ [][OneLineOneStep]_vars
    /\ [](pc \in {"loop", "done"} =>
              /\ i <= Len(lines)
              /\ Len(ignoreAt) = i
              /\ Len(markers) <= i
              /\ \A n \in 1..i : Cardinality({ k \in 1..Len(markers) :
                                                 markers[k].LineNumber = n }) <= 1)

\* every one of three lines has been examined and has given an occurrence
C28_Witness ==
    /\ Returned
    /\ i = 3
    /\ Len(lines) = 3
    /\ Len(markers) = 3

(***************************************************************************)
(* C29: the directive counts only on a comment line.  A line that holds    *)
(* the directive keyword and is not classified as a comment leaves the     *)
(* suppression off, also when it was pending, and a marker-bearing comment *)
(* line directly after it is emitted.                                      *)
(***************************************************************************)
IsBareDirective(n) ==
    LET c == ClassOf(lines[n]) IN c.ignore /\ ~c.comment

C29_DirectiveOnlyOnComment ==
    \A n \in LineNos :
        (Scanned(n) /\ IsBareDirective(n)) =>
            /\ ~IgnoreAfter(n)
            /\ (Returned /\ n < Len(lines) /\ IsMarkerLine(n + 1)) => Emitted(n + 1)

\* directive-only comment, the bare keyword, marker-bearing comment: the
\* pending suppression is cancelled and the third line is emitted
C29_Witness ==
    /\ Returned
    /\ \E n \in LineNos : /\ n >= 2
                          /\ n < Len(lines)
                          /\ IsDirectiveOnly(n - 1)
                          /\ IsBareDirective(n)
                          /\ ignoreAt[n]
                          /\ IsMarkerLine(n + 1)
                          /\ Emitted(n + 1)

(***************************************************************************)
(* C30: every emitted line is a comment with a marker and without the      *)
(* directive; a line with these three properties is withheld only if the   *)
(* suppression is set when the scan reaches it; and the suppression is set *)
(* on reaching a line exactly when the nearest line before it that is no   *)
(* both-on-same-line comment is a directive-only comment.                  *)
(***************************************************************************)
NearestIsDirective(n) ==
    \E m \in 1..(n - 1) :
        /\ IsDirectiveOnly(m)
        /\ \A j \in (m + 1)..(n - 1) : IsBothLine(j)

C30_EmittedLinesAndSuppression ==
    pc \in {"loop", "done"} =>
        \A n \in 1..i :
            /\ Emitted(n) => IsMarkerLine(n)
            /\ (IsMarkerLine(n) /\ ~Emitted(n)) => ignoreAt[n]
            /\ ignoreAt[n] <=> NearestIsDirective(n)

\* a marker line withheld across a both-on-same-line comment, and a marker
\* line emitted after it
C30_Witness ==
    /\ Returned
    /\ \E n \in LineNos : /\ n >= 3
                          /\ n < Len(lines)
                          /\ IsDirectiveOnly(n - 2)
                          /\ IsBothLine(n - 1)
                          /\ IsMarkerLine(n)
                          /\ ignoreAt[n]
                          /\ ~Emitted(n)
                          /\ IsMarkerLine(n + 1)
                          /\ Emitted(n + 1)

(***************************************************************************)
(* Scan, removal and a second scan, as the handler and the event of its    *)
(* own rewrite do them: findActiveAIMarkers on a text, the markers passed  *)
(* to removeAIMarkersFromContent, findActiveAIMarkers on the new text.     *)
(***************************************************************************)
MaxRescanLines == 3

RescanLines ==
    { <<"/", "/", " ", "a", "i", ":", "i", "g", "n", "o", "r", "e">>,   \* "// ai:ignore"
      <<"/", "/", " ", "f", "i", "x", " ", "a", "i", "!">>,   \* "// fix ai!"
      <<"/", "/", " ", "a", "i", ":", "i", "g", "n", "a", "i", "!", "o", "r", "e">>,   \* "// ai:ignai!ore"
      <<"/", "/", " ", "a", "i", ":", "i", "g", "n", "o", "r", "e", " ", "a", "i", "!">>,   \* "// ai:ignore ai!"
      <<"/", "/", " ", "a", "a", "i", "!", "i", "!">>,   \* "// aai!i!"
      <<"/", "/", " ", "a", "i", ":", "i", "g", "n", "a", "i", "!", "o", "r", "e", " ", "a", "a", "i", "!", "i", "!">>,   \* "// ai:ignai!ore aai!i!"
      <<"x">> }   \* "x"

RescanTexts ==
    { Join(ls) : ls \in UNION { [1..n -> RescanLines] : n \in 1..MaxRescanLines } }

InitRescan ==
    /\ content \in RescanTexts
    /\ lines = <<>>
    /\ i = 0
    /\ ignoreNextAI = FALSE
    /\ markers = <<>>
    /\ pc = "call"
    /\ ignoreAt = <<>>
    /\ RemoverIdle
    /\ IgnoreIdle
    /\ RestIdle

\* updatedMarkers, err := removeAIMarkersFromFile(event.Name, markers): the
\* markers of the scan and the text they were found in go to the remover
PassToRemover ==
    /\ pc = "done"
    /\ rmPc = "idle"
    /\ Len(markers) > 0
    /\ rmContent' = content
    /\ rmMarkers' = markers
    /\ rmPc' = "call"
    /\ UNCHANGED <<rmLines, rmI, updatedMarkers, rmRet, scannerVars, ignoreVars,
                   restVars>>

\* the event of the rewrite: findActiveAIMarkers is called on the new text
ScanAgain ==
    /\ pc = "done"
    /\ rmPc = "done"
    /\ ~rmRet.err
    /\ content = rmContent
    /\ content # rmRet.updatedContent
    /\ content' = rmRet.updatedContent
    /\ lines' = <<>>
    /\ i' = 0
    /\ ignoreNextAI' = FALSE
    /\ markers' = <<>>
    /\ pc' = "call"
    /\ ignoreAt' = <<>>
    /\ UNCHANGED <<removerVars, ignoreVars, restVars>>

\* the markers are those of the scan of the same text, so every line number
\* is in range and the failing iteration of the remover is never taken
NextRescan ==
    \/ FindStart
    \/ ScanLine
    \/ FindReturn
    \/ PassToRemover
    \/ RemoveStart
    \/ RemoveMarker
    \/ RemoveReturn
    \/ ScanAgain

SpecRescan == InitRescan /\ [][NextRescan]_vars

(***************************************************************************)
(* C31: removing the scanned markers activates no other line.  Every line  *)
(* number the scan returns on the text the remover made from a text and    *)
(* its scan is a line number the scan returned on the text itself.         *)
(***************************************************************************)
Rescanned ==
    /\ rmPc = "done"
    /\ ~rmRet.err
    /\ content = rmRet.updatedContent
    /\ content # rmContent

FirstNumbers == { rmMarkers[k].LineNumber : k \in 1..Len(rmMarkers) }

C31_RemovalActivatesNoLine ==
    (Rescanned /\ pc \in {"loop", "done"}) =>
        \A k \in 1..Len(markers) : markers[k].LineNumber \in FirstNumbers

\* the second scan has returned; the first line was active and lost a marker
\* that stood inside the directive, so the new first line is a directive-only
\* comment and the marker of the second line, active before, is now withheld
C31_Witness ==
    /\ Rescanned
    /\ Returned
    /\ Len(lines) >= 2
    /\ FirstNumbers = {1, 2}
    /\ IsDirectiveOnly(1)
    /\ IsMarkerLine(2)
    /\ ~Emitted(2)

(***************************************************************************)
(* C32: a prompt is sent for an event only when the scan of the content    *)
(* read for the event gave an occurrence and removeAIMarkersFromFile then  *)
(* wrote the file and returned no error; the write comes before the send;  *)
(* the prompt holds the occurrences as the removal left them; and after a  *)
(* failed removal nothing is sent for the event.                           *)
(***************************************************************************)
PromptQueued == promptChan # <<>>

C32_PromptOnlyAfterRewrite ==
    /\ Did("prompt") =>
           /\ Len(markersFound) > 0
           /\ DidBefore("scan", "rewrite")
           /\ DidBefore("rewrite", "prompt")
           /\ ~fileRet.err
    /\ PromptQueued =>
           LET sent == promptChan[1].Markers
           IN  /\ Did("prompt")
               /\ promptChan[1].File = event.Name
               /\ Len(sent) = Len(markersFound)
               /\ \A k \in 1..Len(sent) :
                      /\ sent[k].LineNumber = markersFound[k].LineNumber
                      /\ sent[k].LineText = Split(updatedContent)[sent[k].LineNumber]
    /\ Did("Error removing AI markers") => ~Did("prompt") /\ ~PromptQueued

\* the prompt for the second line of the file is on the channel, with the
\* text of the line as the removal left it
C32_Witness ==
    /\ PromptQueued
    /\ effects = <<"stat", "hidden", "ignore", "debounce", "read", "scan", "log",
                   "removeRead", "rewrite", "prompt">>
    /\ Len(promptChan[1].Markers) = 1
    /\ promptChan[1].Markers[1].LineNumber = 2
    /\ promptChan[1].Markers[1].LineText # markersFound[1].LineText

(***************************************************************************)
(* C33: an event for a path goes on to the read only if no event for the   *)
(* same path was accepted less than a second before; the time of the       *)
(* acceptance is stored before the read and stays whatever the scan finds; *)
(* an event that comes to the debounce check within the second is dropped  *)
(* without a read or a scan; and the times of other paths have no say.     *)
(* Times are those of the handling (time.Now() in the handler).            *)
(***************************************************************************)
Receives == Len(events') < Len(events)

AcceptedWithinASecond(name) ==
    /\ processedFiles[name].exists
    /\ now < processedFiles[name].at + DebounceMs

C33_Debounce ==
    [][ /\ Receives =>
               LET name == Head(events).Name
               IN  /\ AcceptedWithinASecond(name) =>
                          /\ evPc' = "select"
                          /\ ~Did("read")' /\ ~Did("readError")' /\ ~Did("scan")'
                          /\ processedFiles' = processedFiles
                   /\ Did("debounce")' =>
                          (evPc' = "read" <=> ~AcceptedWithinASecond(name))
                   /\ evPc' = "read" =>
                          /\ processedFiles'[name] = [exists |-> TRUE, at |-> now]
                          /\ \A q \in WatchPaths \ {name} :
                                 processedFiles'[q] = processedFiles[q]
        /\ ~Receives => processedFiles' = processedFiles
      ]_vars

\* an event for one file is accepted while the acceptance of the other file
\* is less than a second old
C33_OtherPathAccepted ==
    /\ evPc = "read"
    /\ event.Name = pathOther
    /\ processedFiles[pathNormal].exists
    /\ now < processedFiles[pathNormal].at + DebounceMs
    /\ processedFiles[pathOther] = [exists |-> TRUE, at |-> now]

\* an event for a file is dropped at the debounce check: the same file was
\* accepted less than a second before and its scan had found nothing
C33_Witness ==
    /\ evPc = "select"
    /\ effects = <<"stat", "hidden", "ignore", "debounce">>
    /\ event.Name = pathNormal
    /\ markersFound = <<>>
    /\ AcceptedWithinASecond(pathNormal)

(***************************************************************************)
(* C34: the rewrite of the program does not set it off again.  When the    *)
(* handler comes to the Write event of its own rewrite and reads the file  *)
(* as it wrote it, it finds no occurrence and goes back to the select; no  *)
(* second removal and no second prompt follow, inside the second of the    *)
(* debounce (the event is dropped) or outside it.                          *)
(***************************************************************************)
ReadsOwnRewrite ==
    /\ evPc = "read"
    /\ event.By = "program"
    /\ files[event.Name].content = event.Wrote
    /\ evPc' # "read"

C34_OwnRewriteSendsNothing ==
    [][ReadsOwnRewrite => evPc' = "select"]_vars

\* outside the second of the debounce the handler has read what it wrote
\* itself, found the marker that the removal left, and sent a second prompt
C34_SecondPrompt ==
    /\ event.By = "program"
    /\ event.Wrote = cSlashes \o cSp \o cBang
    /\ PromptQueued
    /\ promptChan[1].File = pathNormal
    /\ promptChan[1].Markers[1].LineNumber = 1


(***************************************************************************)
(* The session: main waits for the assistant process, closes promptChan    *)
(* and waits for the two goroutines of the WaitGroup, while the monitoring *)
(* goroutine, which is not in the WaitGroup, sends prompts and the prompt  *)
(* goroutine writes them to the pty (main.go 335-546).  The handling of an *)
(* event up to the send is one step here; SpecWatch has its details.       *)
(***************************************************************************)

MaxPrompts == 2
MaxKeys == 1

\* []byte{13}
CR == 13

\* the rendered prompts the monitoring goroutine may send, as bytes: "a", "b"
PromptTexts == {<<97>>, <<98>>}

\* a byte the user types: "k"
KeyBytes == <<107>>

\* the prompt goroutine after ptyMaster.Write([]byte(prompt))
FwdAfterText_SkipsCR == "range"

FwdAfterText == "cr"

InitSession ==
    /\ ScannerIdle
    /\ RemoverIdle
    /\ IgnoreIdle
    /\ HiddenIdle
    /\ CallsIdle
    /\ args = <<>>
    /\ argI = 0
    /\ claudeArgs = <<>>
    /\ watchDirSpecified = FALSE
    /\ mainPc = "wait"
    /\ exitCode = NoExit
    /\ stderr = <<>>
    /\ stages = <<>>
    /\ files = <<>>
    /\ events = <<>>
    /\ event = NoEvent
    /\ processedFiles = <<>>
    /\ now = 0
    /\ evPc = "select"
    /\ markersFound = <<>>
    /\ updatedContent = <<>>
    /\ updatedFound = <<>>
    /\ fileRet = NoFileResult
    /\ promptChan = <<>>
    /\ effects = <<>>
    /\ edits = 0
    /\ claude = "running"
    /\ ptyOk = TRUE
    /\ pty = <<>>
    /\ chanClosed = FALSE
    /\ fwdPc = "range"
    /\ fwdPrompt = <<>>
    /\ copyPc = "copy"
    /\ wg = 2
    /\ queued = <<>>
    /\ keys = 0
    /\ watched = {}

sessionFrame ==
    <<scannerVars, removerVars, ignoreVars, hiddenVars, callVars,
      args, argI, claudeArgs, watchDirSpecified, stages,
      files, events, event, processedFiles, now, markersFound, updatedContent,
      updatedFound, fileRet, effects, edits, watched>>

\* the process runs: main has not returned and no goroutine has panicked
Alive == mainPc \in {"wait", "close", "wgwait"}

\* a panic in a goroutine ends the whole process, with exit status 2
Panic ==
    /\ evPc' = "panic"
    /\ mainPc' = "exited"
    /\ exitCode' = 2
    /\ stderr' = Append(stderr, "panic: send on closed channel")

\* promptChan <- promptBuf.String(): the monitoring goroutine has handled an
\* event with active markers and reaches the send
MonitorSends(prompt) ==
    /\ Alive
    /\ evPc = "select"
    /\ Len(queued) < MaxPrompts
    /\ IF chanClosed
       THEN /\ Panic
            /\ UNCHANGED <<promptChan, queued>>
       ELSE /\ promptChan' = <<prompt>>
            /\ queued' = Append(queued, prompt)
            /\ evPc' = "sending"
            /\ UNCHANGED <<mainPc, exitCode, stderr>>
    /\ UNCHANGED <<claude, ptyOk, pty, chanClosed, fwdPc, fwdPrompt, copyPc, wg,
                   keys, sessionFrame>>

\* close(promptChan) while the send waits for a receiver
MonitorPanics ==
    /\ Alive
    /\ evPc = "sending"
    /\ chanClosed
    /\ Panic
    /\ UNCHANGED <<promptChan, queued, claude, ptyOk, pty, chanClosed, fwdPc,
                   fwdPrompt, copyPc, wg, keys, sessionFrame>>

\* for prompt := range promptChan: a prompt is received, the send returns
ForwardReceive ==
    /\ Alive
    /\ fwdPc = "range"
    /\ ~chanClosed
    /\ promptChan # <<>>
    /\ fwdPrompt' = promptChan[1]
    /\ promptChan' = <<>>
    /\ evPc' = "select"
    /\ fwdPc' = "write"
    /\ UNCHANGED <<mainPc, exitCode, stderr, claude, ptyOk, pty, chanClosed,
                   copyPc, wg, queued, keys, sessionFrame>>

\* ptyMaster.Write: a failed write is reported and nothing else
PtyWrite(by, data) ==
    IF ptyOk
    THEN /\ pty' = Append(pty, [by |-> by, data |-> data])
         /\ UNCHANGED stderr
    ELSE /\ pty' = pty
         /\ stderr' = Append(stderr, "Error writing to Claude's PTY")

\* ptyMaster.Write([]byte(prompt)); time.Sleep(300 * time.Millisecond)
FwdWriteText ==
    /\ Alive
    /\ fwdPc = "write"
    /\ PtyWrite("prompt", fwdPrompt)
    /\ fwdPc' = FwdAfterText
    /\ UNCHANGED <<mainPc, exitCode, evPc, promptChan, claude, ptyOk, chanClosed,
                   fwdPrompt, copyPc, wg, queued, keys, sessionFrame>>

\* ptyMaster.Write([]byte{13})
FwdWriteCR ==
    /\ Alive
    /\ fwdPc = "cr"
    /\ PtyWrite("prompt", <<CR>>)
    /\ fwdPc' = "range"
    /\ UNCHANGED <<mainPc, exitCode, evPc, promptChan, claude, ptyOk, chanClosed,
                   fwdPrompt, copyPc, wg, queued, keys, sessionFrame>>

\* the range loop ends on the closed channel; defer wg.Done()
FwdLeaves ==
    /\ Alive
    /\ fwdPc = "range"
    /\ chanClosed
    /\ fwdPc' = "done"
    /\ wg' = wg - 1
    /\ UNCHANGED <<mainPc, exitCode, stderr, evPc, promptChan, claude, ptyOk, pty,
                   chanClosed, fwdPrompt, copyPc, queued, keys, sessionFrame>>

\* go func() { io.Copy(ptyMaster, os.Stdin) }(): the user types a key
UserTypes ==
    /\ Alive
    /\ ptyOk
    /\ keys < MaxKeys
    /\ keys' = keys + 1
    /\ pty' = Append(pty, [by |-> "stdin", data |-> KeyBytes])
    /\ UNCHANGED <<mainPc, exitCode, stderr, evPc, promptChan, claude, ptyOk,
                   chanClosed, fwdPc, fwdPrompt, copyPc, wg, queued, sessionFrame>>

\* the assistant process exits
ClaudeExits ==
    /\ Alive
    /\ claude = "running"
    /\ claude' = "exited"
    /\ UNCHANGED <<mainPc, exitCode, stderr, evPc, promptChan, ptyOk, pty,
                   chanClosed, fwdPc, fwdPrompt, copyPc, wg, queued, keys,
                   sessionFrame>>

\* the other end of the pty is closed with the process that held it
PtyHangup ==
    /\ Alive
    /\ claude = "exited"
    /\ ptyOk
    /\ ptyOk' = FALSE
    /\ UNCHANGED <<mainPc, exitCode, stderr, evPc, promptChan, claude, pty,
                   chanClosed, fwdPc, fwdPrompt, copyPc, wg, queued, keys,
                   sessionFrame>>

\* io.Copy(os.Stdout, ptyMaster) returns; defer wg.Done()
CopyEnds ==
    /\ Alive
    /\ copyPc = "copy"
    /\ ~ptyOk
    /\ copyPc' = "done"
    /\ wg' = wg - 1
    /\ UNCHANGED <<mainPc, exitCode, stderr, evPc, promptChan, claude, ptyOk, pty,
                   chanClosed, fwdPc, fwdPrompt, queued, keys, sessionFrame>>

\* err = claudeCmd.Wait()
MainWaitReturns ==
    /\ mainPc = "wait"
    /\ claude = "exited"
    /\ mainPc' = "close"
    /\ UNCHANGED <<exitCode, stderr, evPc, promptChan, claude, ptyOk, pty,
                   chanClosed, fwdPc, fwdPrompt, copyPc, wg, queued, keys,
                   sessionFrame>>

\* close(promptChan)
MainClose ==
    /\ mainPc = "close"
    /\ chanClosed' = TRUE
    /\ mainPc' = "wgwait"
    /\ UNCHANGED <<exitCode, stderr, evPc, promptChan, claude, ptyOk, pty,
                   fwdPc, fwdPrompt, copyPc, wg, queued, keys, sessionFrame>>

\* wg.Wait() returns and main returns
MainWgDone ==
    /\ mainPc = "wgwait"
    /\ wg = 0
    /\ mainPc' = "returned"
    /\ exitCode' = 0
    /\ UNCHANGED <<stderr, evPc, promptChan, claude, ptyOk, pty, chanClosed,
                   fwdPc, fwdPrompt, copyPc, wg, queued, keys, sessionFrame>>

\* the steps the Go scheduler and the kernel take without an outside event
SessionProgress ==
    \/ MonitorPanics
    \/ ForwardReceive
    \/ FwdWriteText
    \/ FwdWriteCR
    \/ FwdLeaves
    \/ PtyHangup
    \/ CopyEnds
    \/ MainWaitReturns
    \/ MainClose
    \/ MainWgDone

NextSession ==
    \/ \E prompt \in PromptTexts : MonitorSends(prompt)
    \/ UserTypes
    \/ ClaudeExits
    \/ SessionProgress

SpecSession == InitSession /\ [][NextSession]_vars /\ WF_vars(SessionProgress)

(***************************************************************************)
(* C35: once main has closed promptChan, the monitoring goroutine neither  *)
(* sends on it nor waits in a send on it.                                  *)
(***************************************************************************)
C35_NoSendOnClosedChannel == chanClosed => evPc = "select"

\* the process ended with the panic of a send on the closed channel
C35_Panicked == evPc = "panic"

(***************************************************************************)
(* C36: after the assistant process has exited, main eventually returns:   *)
(* promptChan is closed, the prompt goroutine leaves its loop, the copy of *)
(* the pty to stdout finishes and wg.Wait() completes, whatever the        *)
(* monitoring goroutine does.                                              *)
(***************************************************************************)
C36_MainReturns == (claude = "exited") ~> (mainPc = "returned")

\* what the code does guarantee: the process ends, by return or by panic
C36_ReturnsOrPanics == (claude = "exited") ~> (mainPc \in {"returned", "exited"})

\* main returns only with the channel closed and both goroutines done
C36_ReturnedInOrder ==
    mainPc = "returned" =>
        /\ chanClosed
        /\ fwdPc = "done"
        /\ copyPc = "done"
        /\ wg = 0

\* the process exited, the channel is closed, and the panic ended the wait
C36_PanicBeforeReturn ==
    /\ claude = "exited"
    /\ chanClosed
    /\ mainPc = "exited"
    /\ wg > 0

(***************************************************************************)
(* C37: the prompts are written to the pty one at a time, in the order in  *)
(* which they were queued, and the text of each prompt is followed by its  *)
(* carriage return before the text of the next prompt is written.          *)
(***************************************************************************)
IsPromptWrite(w) == w.by = "prompt"

\* what the prompt goroutine has written to the pty, in order
PromptWrites == SelectSeq(pty, IsPromptWrite)

C37_PromptsInOrderWithCR ==
    /\ Len(PromptWrites) <= 2 * Len(queued)
    /\ \A k \in 1..Len(PromptWrites) :
           PromptWrites[k].data =
               IF k % 2 = 1 THEN queued[(k + 1) \div 2] ELSE <<CR>>
    /\ fwdPc = "cr" /\ ptyOk =>
           /\ Len(PromptWrites) % 2 = 1
           /\ PromptWrites[Len(PromptWrites)].data = fwdPrompt

\* two different prompts were written, each with its carriage return, and
\* the user typed a key between the text of a prompt and its carriage return
C37_Witness ==
    /\ Len(PromptWrites) = 4
    /\ queued[1] # queued[2]
    /\ \E k \in 2..(Len(pty) - 1) :
           /\ pty[k].by = "stdin"
           /\ pty[k - 1].data = queued[1]
           /\ pty[k + 1].data = <<CR>>

(***************************************************************************)
(* C38: the remover strips markers only from the lines the scanner         *)
(* reported: when it goes on to rewrite the file, the line at each         *)
(* occurrence's number in the content it read again is the occurrence's    *)
(* lineText; and its write discards no change another writer made to the   *)
(* file since the watcher read it.                                         *)
(***************************************************************************)
\* the remover has read the file again and goes on to write it
RemoverProceeds == evPc = "removeRead" /\ evPc' = "removeWrite"

\* the lines at the reported numbers are the reported lines
ReportedLinesIn(text) ==
    \A k \in 1..Len(markersFound) :
        /\ markersFound[k].LineNumber \in 1..Len(Split(text))
        /\ Split(text)[markersFound[k].LineNumber] = markersFound[k].LineText

\* the program writes the file without an error
RemoverWrites == evPc = "removeWrite" /\ evPc' = "send"

\* what is written is the file as it is now, without the reported markers
WritesCurrentContent ==
    updatedContent =
        removeAIMarkersFromContent(files[event.Name].content,
                                   markersFound).updatedContent

C38_RemoverReadsReportedLines ==
    [][RemoverProceeds => ReportedLinesIn(files[event.Name].content)]_vars

C38_WriteKeepsOtherChanges ==
    [][RemoverWrites => WritesCurrentContent]_vars

C38_StripsReportedLinesOnly ==
    [][/\ RemoverProceeds => ReportedLinesIn(files[event.Name].content)
       /\ RemoverWrites => WritesCurrentContent]_vars

\* the remover is about to write over a file that another writer has made
\* longer since the remover read it
C38_AboutToDiscard ==
    /\ evPc = "removeWrite"
    /\ ~WritesCurrentContent
    /\ Len(Split(files[event.Name].content)) > Len(Split(updatedContent))

\* the remover has stripped a line that is not the line the scanner reported
C38_StrippedOtherLine ==
    /\ evPc = "removeWrite"
    /\ Len(markersFound) = 1
    /\ Len(updatedFound.items) = 1
    /\ updatedFound.items[1].LineNumber = markersFound[1].LineNumber
    /\ updatedFound.items[1].LineText # updatedLine(markersFound[1].LineText)

(***************************************************************************)
(* The watcher's directories: watchDirectory is called once for the root   *)
(* at the start and once for every directory whose Create event the        *)
(* monitoring goroutine receives (main.go 91-180, 309, 410-425).           *)
(***************************************************************************)

MaxMkdirs == 2
MaxAddErrors == 1

walkRoot == <<"/", "p">>   \* "/p"

\* the last elements of the directories that may exist beneath the root
WalkNames ==
    { <<"s", "u", "b">>,             \* "sub"
      <<".", "g", "i", "t">>,        \* ".git"
      <<".", "h", "i", "d">>,        \* ".hid"
      <<"t", "e", "m", "p">>,        \* "temp": its content matches temp/
      <<"a", ".", "j", "s">> }       \* "a.js": matches \.js$

walkInner == <<"i", "n">>   \* "in"

\* filepath.Join(dir, name)
JoinPath(dir, name) == dir \o <<"/">> \o name

\* the directories that may exist: each name beneath the root, and a
\* directory "in" in each of them
WalkDirs ==
    { JoinPath(walkRoot, n) : n \in WalkNames }
        \cup { JoinPath(JoinPath(walkRoot, n), walkInner) : n \in WalkNames }

\* filepath.Dir of a path with a slash in it
Dir(p) == SubSeq(p, 1, LastSlash(p) - 1)

\* strings.Contains
Contains(s, sub) == \E k \in 1..Len(s) : MatchExactAt(s, k, sub)

dotGit == <<".", "g", "i", "t">>

\* variant: only the hidden and special names are passed over
SkipsDir_HiddenOnly(p, c) == IsHiddenOrSpecialFile(p)

\* the three checks of watchDirectory, the same for the directory it is
\* called for and for every directory of the walk
SkipsDir(p, c) ==
    \/ IsHiddenOrSpecialFile(p)
    \/ Base(p) = dotGit \/ Contains(p, <<"/">> \o dotGit \o <<"/">>)
    \/ ShouldIgnorePathWithConfig(p, c).ignore

\* filep.Walk(dirPath, ...): the directories beneath dirPath for which the
\* function reaches watcher.Add; SkipDir leaves a directory unvisited
RECURSIVE WalkAdds(_, _, _)
WalkAdds(dirPath, existing, c) ==
    LET subdirs == { d \in existing : Dir(d) = dirPath /\ ~SkipsDir(d, c) }
    IN  subdirs \cup UNION { WalkAdds(d, existing, c) : d \in subdirs }

\* watchDirectory(watcher, dirPath, config, skipRoot): the paths it passes to
\* watcher.Add
watchDirectory(dirPath, existing, c, skipRoot) ==
    IF dirPath \notin existing THEN {}
    ELSE IF SkipsDir(dirPath, c) THEN {}
    ELSE (IF skipRoot THEN {} ELSE {dirPath}) \cup WalkAdds(dirPath, existing, c)

\* the directories that exist: a set closed under filepath.Dir
DirSets ==
    { ds \cup {walkRoot} : ds \in
        { ds \in SUBSET WalkDirs : \A d \in ds : Dir(d) \in ds \cup {walkRoot} } }

DirEntry == [IsDir |-> TRUE, content |-> <<>>]

InitWalk ==
    /\ ScannerIdle
    /\ RemoverIdle
    /\ HiddenIdle
    /\ CallsIdle
    /\ config = WatchConfig
    /\ path = <<>>
    /\ igPc = "idle"
    /\ igRet = NoIgnoreResult
    /\ ignoreFile = NoFile
    /\ ldI = 0
    /\ patterns = NilSlice
    /\ ldPc = "idle"
    /\ ldRet = NoLoadResult
    /\ warned = FALSE
    /\ args = <<>>
    /\ argI = 0
    /\ claudeArgs = <<>>
    /\ watchDirSpecified = FALSE
    /\ mainPc = "watch"
    /\ exitCode = NoExit
    /\ stderr = <<>>
    /\ stages = <<>>
    /\ \E ds \in DirSets : files = [d \in ds |-> DirEntry]
    /\ events = <<>>
    /\ event = NoEvent
    /\ processedFiles = <<>>
    /\ now = 0
    /\ evPc = "select"
    /\ markersFound = <<>>
    /\ updatedContent = <<>>
    /\ updatedFound = <<>>
    /\ fileRet = NoFileResult
    /\ promptChan = <<>>
    /\ effects = <<>>
    /\ edits = 0
    /\ claude = "none"
    /\ ptyOk = FALSE
    /\ pty = <<>>
    /\ chanClosed = FALSE
    /\ fwdPc = "idle"
    /\ fwdPrompt = <<>>
    /\ copyPc = "idle"
    /\ wg = 0
    /\ queued = <<>>
    /\ keys = 0
    /\ watched = {}

walkFrame ==
    <<scannerVars, removerVars, ignoreVars, hiddenVars, callVars,
      args, argI, claudeArgs, watchDirSpecified, exitCode, stages,
      processedFiles, now, markersFound, updatedContent, updatedFound, fileRet,
      promptChan, claude, ptyOk, pty, chanClosed, fwdPc, fwdPrompt, copyPc, wg,
      queued, keys>>

\* watcher.Add for each path of the call; an error of Add is reported and the
\* walk goes on
AddToWatcher(paths) ==
    \E failed \in SUBSET paths :
        /\ Cardinality(failed) <= MaxAddErrors
        /\ watched' = watched \cup (paths \ failed)
        /\ stderr' = IF failed = {} THEN stderr
                     ELSE Append(stderr, "Error watching directory")

\* err = watchDirectory(watcher, config.RootDirectory, &config, false)
WalkRoot ==
    /\ mainPc = "watch"
    /\ AddToWatcher(watchDirectory(walkRoot, DOMAIN files, config, FALSE))
    /\ mainPc' = "running"
    /\ UNCHANGED <<files, events, event, evPc, effects, edits, walkFrame>>

\* another program makes a directory; the watcher reports it when it watches
\* the directory it is made in
MakeDir ==
    /\ edits < MaxMkdirs
    /\ \E d \in WalkDirs \ DOMAIN files :
           /\ Dir(d) \in DOMAIN files
           /\ files' = [p \in DOMAIN files \cup {d} |-> DirEntry]
           /\ events' = IF Dir(d) \in watched
                        THEN Append(events, [Name |-> d, Op |-> "Create",
                                             By |-> "other", Wrote |-> <<>>])
                        ELSE events
    /\ edits' = edits + 1
    /\ UNCHANGED <<event, evPc, effects, mainPc, stderr, watched, walkFrame>>

\* case event, ok := <-watcher.Events for a new directory: os.Stat,
\* fileInfo.IsDir() && event.Has(fsnotify.Create), watchDirectory, continue
HandleCreate ==
    /\ mainPc = "running"
    /\ evPc = "select"
    /\ events # <<>>
    /\ event' = Head(events)
    /\ events' = Tail(events)
    /\ \E statOk \in BOOLEAN :
           IF ~statOk
           THEN /\ effects' = <<"stat">>
                /\ UNCHANGED <<watched, stderr>>
           ELSE /\ effects' = <<"stat", "watchDirectory">>
                /\ AddToWatcher(watchDirectory(Head(events).Name, DOMAIN files,
                                               config, FALSE))
    /\ UNCHANGED <<files, evPc, edits, mainPc, walkFrame>>

NextWalk ==
    \/ WalkRoot
    \/ MakeDir
    \/ HandleCreate

SpecWalk == InitWalk /\ [][NextWalk]_vars

(***************************************************************************)
(* C39: no directory that is hidden or special, is a .git directory or     *)
(* matches an ignore rule is ever added to the watcher, and no directory   *)
(* beneath such a directory of the tree is; this holds for the walk from   *)
(* the root and for the directories added on a Create event.               *)
(***************************************************************************)
\* d is p or a directory above p, at or beneath the root
AtOrAbove(d, p) ==
    /\ Len(d) >= Len(walkRoot)
    /\ \/ d = p
       \/ HasPrefix(p, d \o <<"/">>)

HiddenDir(d) == IsHiddenOrSpecialFile(d)

GitDir(d) == Base(d) = dotGit

IgnoredDir(d) == ShouldIgnorePathWithConfig(d, config).ignore

C39_SkippedDirsNeverWatched ==
    \A w \in watched :
        \A d \in DOMAIN files :
            AtOrAbove(d, w) => ~HiddenDir(d) /\ ~GitDir(d) /\ ~IgnoredDir(d)

\* the walk from the root and a Create event have both added directories,
\* while a hidden directory, a .git directory, an ignored directory and
\* directories beneath them exist
C39_Witness ==
    /\ JoinPath(walkRoot, <<"s", "u", "b">>) \in watched
    /\ JoinPath(JoinPath(walkRoot, <<"t", "e", "m", "p">>), walkInner) \in DOMAIN files
    /\ JoinPath(JoinPath(walkRoot, <<"a", ".", "j", "s">>), walkInner) \in DOMAIN files
    /\ JoinPath(JoinPath(walkRoot, dotGit), walkInner) \in DOMAIN files
    /\ JoinPath(JoinPath(walkRoot, <<".", "h", "i", "d">>), walkInner) \in DOMAIN files
    /\ effects = <<"stat", "watchDirectory">>
    /\ event.Name \in watched
    /\ mainPc = "running"

=============================================================================
